---- MODULE Spec2Model ----
(***************************************************************************)
(* A model of tui-db's modal input state machine (src/vim/mode.rs), its    *)
(* command dispatcher and pane focus model (src/app.rs) and the three      *)
(* content panes (src/ui/database_browser.rs, query_editor.rs,             *)
(* results_viewer.rs).                                                     *)
(*                                                                         *)
(* Text (a Rust String) is a sequence of one-character strings.            *)
(* Option<T> is a sequence of length 0 (None) or 1 (Some).                 *)
(***************************************************************************)
EXTENDS Integers, Sequences, FiniteSets, TLC

\* ---------------------------------------------------------------- bounds

\* Largest repeat count the explored key sequences build (usize in the code).
MaxCount == 12
\* Longest command line typed in Command mode.
MaxCmdLen == 2
\* Longest line and largest number of lines typed into the query editor.
MaxLineLen == 1
MaxLines == 2

\* ---------------------------------------------------------------- helpers

None == <<>>
Some(x) == <<x>>
IsSome(o) == Len(o) > 0
IsNone(o) == Len(o) = 0
Unwrap(o) == o[1]
UnwrapOr(o, d) == IF Len(o) > 0 THEN o[1] ELSE d

Min(a, b) == IF a < b THEN a ELSE b
\* usize::saturating_sub
SatSub(a, b) == IF a > b THEN a - b ELSE 0

\* String::pop / chars().last()
Pop(s) == IF Len(s) = 0 THEN s ELSE SubSeq(s, 1, Len(s) - 1)
LastIs(s, c) == Len(s) > 0 /\ s[Len(s)] = c

Digits == <<"0", "1", "2", "3", "4", "5", "6", "7", "8", "9">>
\* char::is_ascii_digit / char::to_digit(10)
is_ascii_digit(c) == \E i \in 1..10 : Digits[i] = c
to_digit(c) == (CHOOSE i \in 1..10 : Digits[i] = c) - 1

\* ---------------------------------------------------------------- keys (crossterm KeyEvent)

KeyChar(c) == [code |-> "Char", ch |-> c, ctrl |-> FALSE]
KeyCtrl(c) == [code |-> "Char", ch |-> c, ctrl |-> TRUE]
KeyNamed(n) == [code |-> n, ch |-> "", ctrl |-> FALSE]
IsChar(key, c) == key.code = "Char" /\ key.ch = c

\* ---------------------------------------------------------------- VimCommand

Cmd(name) == [name |-> name, count |-> 0, ch |-> "", text |-> <<>>]
MoveCmd(name, n) == [name |-> name, count |-> n, ch |-> "", text |-> <<>>]
InsertCharCmd(c) == [name |-> "InsertChar", count |-> 0, ch |-> c, text |-> <<>>]
ExecuteCommandCmd(t) == [name |-> "ExecuteCommand", count |-> 0, ch |-> "", text |-> t]

\* ---------------------------------------------------------------- VimState (src/vim/mode.rs)

VimMode == {"Normal", "Insert", "Visual", "Command"}

VimState_new == [mode |-> "Normal", command_buffer |-> <<>>, register |-> None, count |-> None]

reset_state(v) == [v EXCEPT !.command_buffer = <<>>, !.count = None]

\* enter_insert_mode that leaves the buffer and the count as they are
enter_insert_mode_keeping_state(v) == [v EXCEPT !.mode = "Insert"]

enter_insert_mode(v) == reset_state([v EXCEPT !.mode = "Insert"])

enter_normal_mode(v) == reset_state([v EXCEPT !.mode = "Normal"])

\* enter_visual_mode that leaves the buffer and the count as they are
enter_visual_mode_keeping_state(v) == [v EXCEPT !.mode = "Visual"]

enter_visual_mode(v) == reset_state([v EXCEPT !.mode = "Visual"])

\* enter_command_mode that leaves the buffer as it is
enter_command_mode_keeping_buffer(v) == [v EXCEPT !.mode = "Command"]

enter_command_mode(v) == [v EXCEPT !.mode = "Command", !.command_buffer = <<>>]

append_to_command(v, c) ==
    IF v.mode = "Command" THEN [v EXCEPT !.command_buffer = Append(@, c)] ELSE v

\* backspace_command that removes nothing
backspace_command_keeping(v) == v

backspace_command(v) ==
    IF v.mode = "Command" THEN [v EXCEPT !.command_buffer = Pop(@)] ELSE v

\* set_count that adds the digit instead of shifting the count one decimal place
set_count_adding(v, n) ==
    [v EXCEPT !.count = Some(IF IsSome(v.count) THEN Unwrap(v.count) + n ELSE n)]

\* set_count that forgets the digits typed so far
set_count_replacing(v, n) == [v EXCEPT !.count = Some(n)]

set_count(v, n) ==
    [v EXCEPT !.count = Some(IF IsSome(v.count) THEN Unwrap(v.count) * 10 + n ELSE n)]

get_count(v) == UnwrapOr(v.count, 1)

\* The result of one handle_* call: the new VimState and the Option<VimCommand>.
Out(v, c) == [vim |-> v, cmd |-> c]

\* Normal-mode keys that only emit a command (mode.rs 128, 161-169, 178-189).
NormalPlain ==
    ("e" :> "EnterEditMode") @@ ("x" :> "DeleteChar") @@ ("X" :> "DeleteConnection") @@
    ("C" :> "OpenConnectionManager") @@ ("d" :> "Delete") @@ ("y" :> "Yank") @@
    ("p" :> "Paste") @@ ("u" :> "Undo") @@ ("r" :> "Redo") @@ ("R" :> "RefreshData") @@
    ("G" :> "GotoBottom") @@ ("$" :> "GotoLineEnd") @@ ("w" :> "NextWord") @@
    ("b" :> "PrevWord") @@ ("n" :> "NextMatch") @@ ("N" :> "PrevMatch")

\* Normal-mode keys that enter Insert mode (mode.rs 129-152).
NormalInsert ==
    ("i" :> "EnterInsertMode") @@ ("a" :> "EnterInsertModeAfter") @@
    ("I" :> "InsertAtLineStart") @@ ("A" :> "InsertAtLineEnd") @@
    ("o" :> "OpenLineBelow") @@ ("O" :> "OpenLineAbove")

\* The Ctrl table with the two execute commands exchanged
NormalCtrl_exchanged ==
    ("c" :> "Quit") @@ ("e" :> "ExecuteAllQueries") @@ ("r" :> "ExecuteQueryUnderCursor") @@
    ("s" :> "SaveAllEdits") @@ ("n" :> "EnterInsertRowMode")

\* Control-modified keys of Normal mode (mode.rs 112-121).
NormalCtrl ==
    ("c" :> "Quit") @@ ("e" :> "ExecuteQueryUnderCursor") @@ ("r" :> "ExecuteAllQueries") @@
    ("s" :> "SaveAllEdits") @@ ("n" :> "EnterInsertRowMode")

handle_normal_mode(v, key) ==
    IF key.ctrl THEN
        IF key.code = "Char" /\ key.ch \in DOMAIN NormalCtrl
        THEN Out(v, Some(Cmd(NormalCtrl[key.ch])))
        ELSE Out(v, None)
    ELSE
    LET c == key.ch
        isc == key.code = "Char"
    IN  CASE (isc /\ c = "h") \/ key.code = "Left" -> Out(v, Some(MoveCmd("MoveLeft", get_count(v))))
          [] (isc /\ c = "j") \/ key.code = "Down" -> Out(v, Some(MoveCmd("MoveDown", get_count(v))))
          [] (isc /\ c = "k") \/ key.code = "Up" -> Out(v, Some(MoveCmd("MoveUp", get_count(v))))
          [] (isc /\ c = "l") \/ key.code = "Right" -> Out(v, Some(MoveCmd("MoveRight", get_count(v))))
          [] isc /\ c \in DOMAIN NormalInsert -> Out(enter_insert_mode(v), Some(Cmd(NormalInsert[c])))
          [] isc /\ c = "v" -> Out(enter_visual_mode(v), Some(Cmd("EnterVisualMode")))
          [] isc /\ c = ":" -> Out(enter_command_mode(v), Some(Cmd("EnterCommandMode")))
          [] isc /\ c \in DOMAIN NormalPlain -> Out(v, Some(Cmd(NormalPlain[c])))
          [] isc /\ c = "g" /\ LastIs(v.command_buffer, "g") ->
                Out([v EXCEPT !.command_buffer = <<>>], Some(Cmd("GotoTop")))
          [] isc /\ c = "g" /\ ~LastIs(v.command_buffer, "g") ->
                Out([v EXCEPT !.command_buffer = Append(@, "g")], None)
          [] isc /\ c = "0" /\ IsNone(v.count) -> Out(v, Some(Cmd("GotoLineStart")))
          [] isc /\ c = "/" ->
                Out([enter_command_mode(v) EXCEPT !.command_buffer = Append(@, "/")],
                    Some(Cmd("StartSearch")))
          [] isc /\ is_ascii_digit(c) /\ ~(c = "0" /\ IsNone(v.count)) ->
                Out(set_count(v, to_digit(c)), None)
          [] key.code = "Tab" -> Out(v, Some(Cmd("NextPane")))
          [] key.code = "BackTab" -> Out(v, Some(Cmd("PrevPane")))
          [] key.code = "Enter" -> Out(v, Some(Cmd("Activate")))
          [] OTHER -> Out(v, None)

\* handle_insert_mode that gives Control combinations the commands of Normal mode
handle_insert_mode_with_shortcuts(v, key) ==
    CASE key.code = "Esc" -> Out(enter_normal_mode(v), Some(Cmd("ExitInsertMode")))
      [] key.code = "Char" /\ key.ctrl /\ key.ch \in DOMAIN NormalCtrl ->
            Out(v, Some(Cmd(NormalCtrl[key.ch])))
      [] key.code = "Char" /\ ~(key.ctrl /\ key.ch \in DOMAIN NormalCtrl) ->
            Out(v, Some(InsertCharCmd(key.ch)))
      [] key.code = "Backspace" -> Out(v, Some(Cmd("Backspace")))
      [] key.code = "Enter" -> Out(v, Some(Cmd("InsertNewline")))
      [] key.code = "Tab" -> Out(v, Some(Cmd("InsertTab")))
      [] key.code = "Left" -> Out(v, Some(MoveCmd("MoveLeft", 1)))
      [] key.code = "Right" -> Out(v, Some(MoveCmd("MoveRight", 1)))
      [] key.code = "Up" -> Out(v, Some(MoveCmd("MoveUp", 1)))
      [] key.code = "Down" -> Out(v, Some(MoveCmd("MoveDown", 1)))
      [] OTHER -> Out(v, None)

handle_insert_mode(v, key) ==
    CASE key.code = "Esc" -> Out(enter_normal_mode(v), Some(Cmd("ExitInsertMode")))
      [] key.code = "Char" -> Out(v, Some(InsertCharCmd(key.ch)))
      [] key.code = "Backspace" -> Out(v, Some(Cmd("Backspace")))
      [] key.code = "Enter" -> Out(v, Some(Cmd("InsertNewline")))
      [] key.code = "Tab" -> Out(v, Some(Cmd("InsertTab")))
      [] key.code = "Left" -> Out(v, Some(MoveCmd("MoveLeft", 1)))
      [] key.code = "Right" -> Out(v, Some(MoveCmd("MoveRight", 1)))
      [] key.code = "Up" -> Out(v, Some(MoveCmd("MoveUp", 1)))
      [] key.code = "Down" -> Out(v, Some(MoveCmd("MoveDown", 1)))
      [] OTHER -> Out(v, None)

handle_visual_mode(v, key) ==
    LET c == key.ch
        isc == key.code = "Char"
    IN  CASE key.code = "Esc" -> Out(enter_normal_mode(v), Some(Cmd("ExitVisualMode")))
          [] (isc /\ c = "h") \/ key.code = "Left" -> Out(v, Some(Cmd("ExtendLeft")))
          [] (isc /\ c = "j") \/ key.code = "Down" -> Out(v, Some(Cmd("ExtendDown")))
          [] (isc /\ c = "k") \/ key.code = "Up" -> Out(v, Some(Cmd("ExtendUp")))
          [] (isc /\ c = "l") \/ key.code = "Right" -> Out(v, Some(Cmd("ExtendRight")))
          [] isc /\ c = "y" -> Out(enter_normal_mode(v), Some(Cmd("YankSelection")))
          [] isc /\ c = "d" -> Out(enter_normal_mode(v), Some(Cmd("DeleteSelection")))
          [] OTHER -> Out(v, None)

handle_command_mode(v, key) ==
    CASE key.code = "Esc" -> Out(enter_normal_mode(v), Some(Cmd("CancelCommand")))
      [] key.code = "Enter" ->
            Out(enter_normal_mode(v), Some(ExecuteCommandCmd(v.command_buffer)))
      [] key.code = "Char" -> Out(append_to_command(v, key.ch), None)
      [] key.code = "Backspace" ->
            LET b == backspace_command(v)
            IN  IF Len(b.command_buffer) = 0
                THEN Out(enter_normal_mode(b), Some(Cmd("CancelCommand")))
                ELSE Out(b, None)
      [] OTHER -> Out(v, None)

\* handle_key that forgets the count and the buffer when a key does nothing
handle_key_forgetting(v, key) ==
    LET out == CASE v.mode = "Normal" -> handle_normal_mode(v, key)
                 [] v.mode = "Insert" -> handle_insert_mode(v, key)
                 [] v.mode = "Visual" -> handle_visual_mode(v, key)
                 [] v.mode = "Command" -> handle_command_mode(v, key)
    IN  IF IsNone(out.cmd) /\ out.vim = v THEN Out(reset_state(v), None) ELSE out

handle_key(v, key) ==
    CASE v.mode = "Normal" -> handle_normal_mode(v, key)
      [] v.mode = "Insert" -> handle_insert_mode(v, key)
      [] v.mode = "Visual" -> handle_visual_mode(v, key)
      [] v.mode = "Command" -> handle_command_mode(v, key)

\* ---------------------------------------------------------------- QueryEditor (src/ui/query_editor.rs)

QueryEditor_new ==
    [content |-> << <<>> >>, cursor_line |-> 0, cursor_col |-> 0, focused |-> FALSE,
     visual_start |-> None, scroll_offset |-> 0]

\* content[i] with the code's 0-based index
LineAt(e, i) == e.content[i + 1]
LineLen(e, i) == Len(e.content[i + 1])

\* String::insert / String::remove / Vec::insert / Vec::remove, 0-based
StrInsert(s, i, c) == SubSeq(s, 1, i) \o <<c>> \o SubSeq(s, i + 1, Len(s))
StrRemove(s, i) == SubSeq(s, 1, i) \o SubSeq(s, i + 2, Len(s))

editor_clear(e) ==
    [e EXCEPT !.content = << <<>> >>, !.cursor_line = 0, !.cursor_col = 0, !.scroll_offset = 0]

editor_insert_char(e, c) ==
    LET e1 == IF e.cursor_line >= Len(e.content)
              THEN [e EXCEPT !.content = Append(@, <<>>)] ELSE e
    IN  [e1 EXCEPT !.content[e.cursor_line + 1] = StrInsert(@, e.cursor_col, c),
                   !.cursor_col = @ + 1]

editor_insert_newline(e) ==
    LET e1 == IF e.cursor_line >= Len(e.content)
              THEN [e EXCEPT !.content = Append(@, <<>>)] ELSE e
        cur == LineAt(e1, e.cursor_line)
        after == SubSeq(cur, e.cursor_col + 1, Len(cur))
        before == SubSeq(cur, 1, e.cursor_col)
    IN  [e1 EXCEPT !.content = SubSeq(e1.content, 1, e.cursor_line) \o <<before, after>>
                                \o SubSeq(e1.content, e.cursor_line + 2, Len(e1.content)),
                   !.cursor_line = @ + 1,
                   !.cursor_col = 0]

editor_backspace(e) ==
    IF e.cursor_col > 0 THEN
        [e EXCEPT !.content[e.cursor_line + 1] = StrRemove(@, e.cursor_col - 1),
                  !.cursor_col = @ - 1]
    ELSE IF e.cursor_line > 0 THEN
        LET current_line == LineAt(e, e.cursor_line)
            prev == LineAt(e, e.cursor_line - 1)
        IN  [e EXCEPT !.content = SubSeq(e.content, 1, e.cursor_line - 1)
                                  \o <<prev \o current_line>>
                                  \o SubSeq(e.content, e.cursor_line + 2, Len(e.content)),
                      !.cursor_line = @ - 1,
                      !.cursor_col = Len(prev)]
    ELSE e

editor_delete_char(e) ==
    IF e.cursor_col < LineLen(e, e.cursor_line) THEN
        [e EXCEPT !.content[e.cursor_line + 1] = StrRemove(@, e.cursor_col)]
    ELSE IF e.cursor_line < Len(e.content) - 1 THEN
        [e EXCEPT !.content = SubSeq(e.content, 1, e.cursor_line)
                              \o <<LineAt(e, e.cursor_line) \o LineAt(e, e.cursor_line + 1)>>
                              \o SubSeq(e.content, e.cursor_line + 3, Len(e.content))]
    ELSE e

\* One iteration of the loop bodies of move_left / move_right / move_up / move_down.
editor_left_step(e) ==
    IF e.cursor_col > 0 THEN [e EXCEPT !.cursor_col = @ - 1]
    ELSE IF e.cursor_line > 0
         THEN [e EXCEPT !.cursor_line = @ - 1, !.cursor_col = LineLen(e, e.cursor_line - 1)]
         ELSE e

\* the body of move_right without its tests
editor_right_step_unchecked(e) == [e EXCEPT !.cursor_col = @ + 1]

editor_right_step(e) ==
    IF e.cursor_col < LineLen(e, e.cursor_line) THEN [e EXCEPT !.cursor_col = @ + 1]
    ELSE IF e.cursor_line < Len(e.content) - 1
         THEN [e EXCEPT !.cursor_line = @ + 1, !.cursor_col = 0]
         ELSE e

\* the body of move_up without the clamp of the column
editor_up_step_unclamped(e) ==
    IF e.cursor_line > 0 THEN [e EXCEPT !.cursor_line = @ - 1] ELSE e

editor_up_step(e) ==
    IF e.cursor_line > 0
    THEN [e EXCEPT !.cursor_line = @ - 1,
                   !.cursor_col = Min(e.cursor_col, LineLen(e, e.cursor_line - 1))]
    ELSE e

editor_down_step(e) ==
    IF e.cursor_line < Len(e.content) - 1
    THEN [e EXCEPT !.cursor_line = @ + 1,
                   !.cursor_col = Min(e.cursor_col, LineLen(e, e.cursor_line + 1))]
    ELSE e

\* for _ in 0..count { body }
RECURSIVE editor_move_left(_, _)
editor_move_left(e, count) ==
    IF count = 0 THEN e ELSE editor_move_left(editor_left_step(e), count - 1)

RECURSIVE editor_move_right(_, _)
editor_move_right(e, count) ==
    IF count = 0 THEN e ELSE editor_move_right(editor_right_step(e), count - 1)

RECURSIVE editor_move_up(_, _)
editor_move_up(e, count) ==
    IF count = 0 THEN e ELSE editor_move_up(editor_up_step(e), count - 1)

RECURSIVE editor_move_down(_, _)
editor_move_down(e, count) ==
    IF count = 0 THEN e ELSE editor_move_down(editor_down_step(e), count - 1)

editor_goto_line_start(e) == [e EXCEPT !.cursor_col = 0]

editor_goto_line_end(e) == [e EXCEPT !.cursor_col = LineLen(e, e.cursor_line)]

editor_goto_top(e) == [e EXCEPT !.cursor_line = 0, !.cursor_col = 0, !.scroll_offset = 0]

editor_goto_bottom(e) ==
    [e EXCEPT !.cursor_line = Len(e.content) - 1,
              !.cursor_col = LineLen(e, Len(e.content) - 1)]

start_visual_mode(e) == [e EXCEPT !.visual_start = Some(<<e.cursor_line, e.cursor_col>>)]

exit_visual_mode(e) == [e EXCEPT !.visual_start = None]

\* content.join("\n"), with "\n" as one character
RECURSIVE JoinLines(_)
JoinLines(ls) ==
    IF Len(ls) = 0 THEN <<>>
    ELSE IF Len(ls) = 1 THEN ls[1]
    ELSE ls[1] \o <<"\n">> \o JoinLines(Tail(ls))

get_query(e) == JoinLines(e.content)

RECURSIVE Flatten(_)
Flatten(ss) == IF Len(ss) = 0 THEN <<>> ELSE ss[1] \o Flatten(Tail(ss))

\* (a, b) <= (c, d) on tuples, as Rust compares them
PosLe(p, q) == p[1] < q[1] \/ (p[1] = q[1] /\ p[2] <= q[2])

get_selection(e) ==
    IF IsNone(e.visual_start) THEN None
    ELSE LET vs == Unwrap(e.visual_start)
             cur == <<e.cursor_line, e.cursor_col>>
             start == IF PosLe(vs, cur) THEN vs ELSE cur
             end == IF PosLe(vs, cur) THEN cur ELSE vs
         IN  IF start[1] = end[1]
             THEN Some(SubSeq(LineAt(e, start[1]), start[2] + 1, end[2]))
             ELSE Some(SubSeq(LineAt(e, start[1]), start[2] + 1, LineLen(e, start[1]))
                       \o Flatten([i \in 1..(end[1] - start[1] - 1) |->
                                      <<"\n">> \o e.content[start[1] + 1 + i]])
                       \o <<"\n">>
                       \o SubSeq(LineAt(e, end[1]), 1, end[2]))

\* ---------------------------------------------------------------- DatabaseBrowser (src/ui/database_browser.rs)

DatabaseBrowser_new ==
    [connections |-> <<>>, tables |-> <<>>, selected_connection |-> None,
     selected_table |-> None, list_state |-> Some(0), focused |-> TRUE,
     current_database |-> None, viewing_tables |-> FALSE,
     search_mode |-> FALSE, search_query |-> <<>>]

\* str::to_lowercase on the letters the explored keys can type
UpperLower == ("C" :> "c") @@ ("G" :> "g") @@ ("X" :> "x") @@ ("R" :> "r")
to_lowercase(s) == [i \in 1..Len(s) |-> IF s[i] \in DOMAIN UpperLower THEN UpperLower[s[i]] ELSE s[i]]

\* str::contains
Contains(s, q) == \E i \in 0..(Len(s) - Len(q)) : SubSeq(s, i + 1, i + Len(q)) = q

\* Vec of the 0-based indices i of xs whose name matches the search query
RECURSIVE FilterIdx(_, _, _)
FilterIdx(xs, q, i) ==
    IF i >= Len(xs) THEN <<>>
    ELSE (IF Len(q) = 0 \/ Contains(to_lowercase(xs[i + 1].name), to_lowercase(q))
          THEN <<i>> ELSE <<>>) \o FilterIdx(xs, q, i + 1)

get_filtered_items(b) ==
    [conns |-> FilterIdx(b.connections, b.search_query, 0),
     tables |-> FilterIdx(b.tables, b.search_query, 0)]

get_total_filtered_items(b) ==
    LET f == get_filtered_items(b)
    IN  Len(f.conns) + (IF IsSome(b.selected_connection) THEN Len(f.tables) ELSE 0)

add_connection(b, conn) == [b EXCEPT !.connections = Append(@, conn)]

set_tables(b, tables) ==
    LET has_tables == Len(tables) > 0
        b1 == [b EXCEPT !.viewing_tables =
                           has_tables /\ \E i \in 1..Len(tables) : IsSome(tables[i].row_count),
                        !.tables = tables]
    IN  IF has_tables /\ IsNone(b.selected_table)
        THEN [b1 EXCEPT !.selected_table = Some(0), !.list_state = Some(0)]
        ELSE b1

go_back_to_databases(b) ==
    [b EXCEPT !.current_database = None, !.viewing_tables = FALSE, !.list_state = Some(0)]

update_selection(b, index) ==
    IF index < Len(b.connections)
    THEN [b EXCEPT !.selected_connection = Some(index), !.selected_table = None]
    ELSE LET table_idx == index - Len(b.connections)
         IN  IF table_idx < Len(b.tables)
             THEN [b EXCEPT !.selected_table = Some(table_idx)]
             ELSE b

update_selection_filtered(b, filtered_index) ==
    LET f == get_filtered_items(b)
    IN  IF Len(f.conns) = 0 /\ Len(f.tables) = 0 THEN b
        ELSE IF filtered_index < Len(f.conns)
        THEN [b EXCEPT !.selected_connection = Some(f.conns[filtered_index + 1]),
                       !.selected_table = None]
        ELSE IF IsSome(b.selected_connection)
        THEN LET table_offset == filtered_index - Len(f.conns)
             IN  IF table_offset < Len(f.tables)
                 THEN [b EXCEPT !.selected_table = Some(f.tables[table_offset + 1])]
                 ELSE b
        ELSE b

browser_move_up(b) ==
    LET total_items == get_total_filtered_items(b)
        current == UnwrapOr(b.list_state, 0)
        next == IF current = 0 THEN total_items - 1 ELSE current - 1
    IN  IF total_items = 0 THEN b
        ELSE update_selection_filtered([b EXCEPT !.list_state = Some(next)], next)

browser_move_down(b) ==
    LET total_items == get_total_filtered_items(b)
        current == UnwrapOr(b.list_state, 0)
        next == IF current >= total_items - 1 THEN 0 ELSE current + 1
    IN  IF total_items = 0 THEN b
        ELSE update_selection_filtered([b EXCEPT !.list_state = Some(next)], next)

get_selected_table(b) ==
    IF IsSome(b.selected_table) /\ Unwrap(b.selected_table) < Len(b.tables)
    THEN Some(b.tables[Unwrap(b.selected_table) + 1]) ELSE None

get_selected_connection(b) ==
    IF IsSome(b.selected_connection) /\ Unwrap(b.selected_connection) < Len(b.connections)
    THEN Some(b.connections[Unwrap(b.selected_connection) + 1]) ELSE None

\* position of the connection with this id, 0-based; Len when absent
ConnPos(b, id) ==
    IF \E i \in 1..Len(b.connections) : b.connections[i].id = id
    THEN (CHOOSE i \in 1..Len(b.connections) :
            b.connections[i].id = id /\ \A j \in 1..(i - 1) : b.connections[j].id /= id) - 1
    ELSE Len(b.connections)

remove_connection(b, id) ==
    LET pos == ConnPos(b, id)
    IN  IF pos = Len(b.connections) THEN b
        ELSE
        LET b1 == [b EXCEPT !.connections = SubSeq(@, 1, pos) \o SubSeq(@, pos + 2, Len(@))]
            b2 == IF b.selected_connection = Some(pos)
                  THEN [b1 EXCEPT !.tables = <<>>, !.selected_table = None,
                                  !.selected_connection = None]
                  ELSE b1
            total_items == Len(b2.connections) + Len(b2.tables)
            current == UnwrapOr(b2.list_state, 0)
            next == IF current >= total_items THEN total_items - 1 ELSE current
        IN  IF total_items > 0
            THEN update_selection([b2 EXCEPT !.list_state = Some(next)], next)
            ELSE [b2 EXCEPT !.list_state = Some(0)]

enter_search_mode(b) ==
    [b EXCEPT !.search_mode = TRUE, !.search_query = <<>>, !.list_state = Some(0)]

\* exit_search_mode that stays in search mode
exit_search_mode_staying(b) == b

exit_search_mode(b) == [b EXCEPT !.search_mode = FALSE]

search_insert_char(b, c) ==
    update_selection_filtered(
        [b EXCEPT !.search_query = Append(@, c), !.list_state = Some(0)], 0)

search_backspace(b) ==
    update_selection_filtered(
        [b EXCEPT !.search_query = Pop(@), !.list_state = Some(0)], 0)

clear_search(b) ==
    LET b1 == [b EXCEPT !.search_query = <<>>, !.search_mode = FALSE, !.list_state = Some(0)]
    IN  IF Len(b.connections) > 0 THEN update_selection(b1, 0) ELSE b1

\* ---------------------------------------------------------------- ResultsViewer (src/ui/results_viewer.rs)

\* HashMap: a function on the set of its keys
MapEmpty == [k \in {} |-> <<>>]
MapPut(m, k, v) == [x \in (DOMAIN m) \cup {k} |-> IF x = k THEN v ELSE m[x]]
MapGet(m, k) == IF k \in DOMAIN m THEN Some(m[k]) ELSE None
MapIsEmpty(m) == DOMAIN m = {}

\* visible_columns as constructed
DefaultVisibleColumns == 10
\* schema table: name, type, nullable, default, extra
SchemaLastColumn == 4

ResultsViewer_new ==
    [result |-> None, table_state |-> Some(0), scroll_offset |-> 0, horizontal_scroll |-> 0,
     focused |-> FALSE, edit_mode |-> FALSE, insert_mode |-> FALSE, selected_column |-> 0,
     modified_cells |-> MapEmpty, insert_row |-> MapEmpty, table_name |-> None,
     edit_buffer |-> <<>>, visible_columns |-> DefaultVisibleColumns, active_tab |-> "Data",
     schema_info |-> None, indexes_info |-> None, schema_columns |-> <<>>,
     schema_table_state |-> Some(0), schema_edit_mode |-> FALSE,
     schema_insert_mode |-> FALSE, schema_selected_column |-> 0,
     schema_edit_buffer |-> <<>>, schema_modified_cells |-> MapEmpty,
     schema_insert_row |-> MapEmpty, status_message |-> None]

set_result(r, result) ==
    [r EXCEPT !.result = Some(result), !.scroll_offset = 0, !.horizontal_scroll = 0,
              !.table_state = Some(0)]

results_clear(r) == [r EXCEPT !.result = None, !.scroll_offset = 0, !.table_state = Some(0)]

clear_status_message(r) == [r EXCEPT !.status_message = None]

results_move_up(r, count) ==
    LET r1 == clear_status_message(r)
    IN  IF IsNone(r.result) \/ Len(Unwrap(r.result).rows) = 0 THEN r1
        ELSE [r1 EXCEPT !.table_state = Some(SatSub(UnwrapOr(r.table_state, 0), count))]

\* move_down that refuses a jump past the last row instead of stopping on it
results_move_down_refusing(r, count) ==
    LET r1 == clear_status_message(r)
    IN  IF IsNone(r.result) \/ Len(Unwrap(r.result).rows) = 0 THEN r1
        ELSE IF UnwrapOr(r.table_state, 0) + count > Len(Unwrap(r.result).rows) - 1 THEN r1
        ELSE [r1 EXCEPT !.table_state = Some(UnwrapOr(r.table_state, 0) + count)]

results_move_down(r, count) ==
    LET r1 == clear_status_message(r)
    IN  IF IsNone(r.result) \/ Len(Unwrap(r.result).rows) = 0 THEN r1
        ELSE [r1 EXCEPT !.table_state =
                 Some(Min(UnwrapOr(r.table_state, 0) + count, Len(Unwrap(r.result).rows) - 1))]

results_goto_top(r) == [r EXCEPT !.table_state = Some(0), !.scroll_offset = 0]

results_goto_bottom(r) ==
    IF IsSome(r.result) /\ Len(Unwrap(r.result).rows) > 0
    THEN [r EXCEPT !.table_state = Some(Len(Unwrap(r.result).rows) - 1)]
    ELSE r

get_current_cell_value(r) ==
    IF IsNone(r.table_state) THEN None
    ELSE LET row == Unwrap(r.table_state)
             col == r.selected_column
         IN  IF <<row, col>> \in DOMAIN r.modified_cells THEN Some(r.modified_cells[<<row, col>>])
             ELSE IF IsNone(r.result) THEN None
             ELSE IF row >= Len(Unwrap(r.result).rows) THEN None
             ELSE IF col >= Len(Unwrap(r.result).rows[row + 1]) THEN None
             ELSE Some(Unwrap(r.result).rows[row + 1][col + 1])

\* if let Some(value) = self.get_current_cell_value() { self.edit_buffer = value; }
LoadCellIntoBuffer(r) ==
    LET v == get_current_cell_value(r)
    IN  IF IsSome(v) THEN [r EXCEPT !.edit_buffer = Unwrap(v)] ELSE r

\* enter_edit_mode that does not load the cell into the buffer
enter_edit_mode_keeping_buffer(r) == [r EXCEPT !.edit_mode = TRUE, !.selected_column = 0]

enter_edit_mode(r) == LoadCellIntoBuffer([r EXCEPT !.edit_mode = TRUE, !.selected_column = 0])

exit_edit_mode(r) == [r EXCEPT !.edit_mode = FALSE, !.edit_buffer = <<>>]

results_enter_insert_mode(r) ==
    [r EXCEPT !.insert_mode = TRUE, !.selected_column = 0, !.insert_row = MapEmpty,
              !.edit_buffer = <<>>]

exit_insert_mode(r) ==
    [r EXCEPT !.insert_mode = FALSE, !.insert_row = MapEmpty, !.edit_buffer = <<>>]

save_insert_field(r) == [r EXCEPT !.insert_row = MapPut(@, r.selected_column, r.edit_buffer)]

\* the reload of edit_buffer shared by move_column_left and move_column_right
ReloadBuffer(r) ==
    IF r.insert_mode
    THEN [r EXCEPT !.edit_buffer = UnwrapOr(MapGet(r.insert_row, r.selected_column), <<>>)]
    ELSE LoadCellIntoBuffer(r)

move_column_left(r) ==
    IF r.selected_column > 0
    THEN LET c == r.selected_column - 1
         IN  ReloadBuffer([r EXCEPT !.selected_column = c,
                                    !.horizontal_scroll = IF c < @ THEN c ELSE @])
    ELSE r

move_column_right(r) ==
    IF IsSome(r.result) /\ r.selected_column < SatSub(Len(Unwrap(r.result).columns), 1)
    THEN LET c == r.selected_column + 1
             visible_end == r.horizontal_scroll + r.visible_columns
         IN  ReloadBuffer([r EXCEPT !.selected_column = c,
                                    !.horizontal_scroll =
                                        IF c >= visible_end
                                        THEN SatSub(c, r.visible_columns - 1) ELSE @])
    ELSE r

edit_insert_char(r, c) == [r EXCEPT !.edit_buffer = Append(@, c)]

edit_backspace(r) == [r EXCEPT !.edit_buffer = Pop(@)]

\* save_cell_edit that records nothing
save_cell_edit_dropping(r) == r

save_cell_edit(r) ==
    [r EXCEPT !.modified_cells =
        MapPut(@, <<UnwrapOr(r.table_state, 0), r.selected_column>>, r.edit_buffer)]

set_table_name(r, name) == [r EXCEPT !.table_name = Some(name)]

has_modifications(r) == ~MapIsEmpty(r.modified_cells)

\* The rows generate_update_queries emits an UPDATE for (one query per such row).
generate_update_queries(r) ==
    IF IsNone(r.result) \/ IsNone(r.table_name) THEN {}
    ELSE LET res == Unwrap(r.result)
         IN  {row \in {k[1] : k \in DOMAIN r.modified_cells} :
                /\ row < Len(res.rows)
                /\ \E k \in DOMAIN r.modified_cells : k[1] = row /\ k[2] < Len(res.columns)
                /\ \E col \in 0..(Len(res.columns) - 1) : col < Len(res.rows[row + 1])}

clear_modifications(r) == [r EXCEPT !.modified_cells = MapEmpty]

has_insert_data(r) == ~MapIsEmpty(r.insert_row)

\* Some(the columns of the INSERT statement) or None
generate_insert_query(r) ==
    IF IsNone(r.result) \/ IsNone(r.table_name) \/ MapIsEmpty(r.insert_row) THEN None
    ELSE LET cols == {c \in DOMAIN r.insert_row : c < Len(Unwrap(r.result).columns)}
         IN  IF cols = {} THEN None ELSE Some(cols)

clear_insert_data(r) == [r EXCEPT !.insert_row = MapEmpty]

\* discard_all_changes that empties the maps and the buffer but leaves the sub-modes
discard_all_changes_keeping_modes(r) ==
    [r EXCEPT !.modified_cells = MapEmpty, !.insert_row = MapEmpty, !.edit_buffer = <<>>]

discard_all_changes(r) ==
    LET r1 == [r EXCEPT !.modified_cells = MapEmpty, !.insert_row = MapEmpty,
                        !.edit_buffer = <<>>]
        r2 == IF r1.edit_mode THEN exit_edit_mode(r1) ELSE r1
    IN  IF r2.insert_mode THEN exit_insert_mode(r2) ELSE r2

\* exit_schema_edit_mode that keeps the text of the buffer
exit_schema_edit_mode_keeping_buffer(r) == [r EXCEPT !.schema_edit_mode = FALSE]

exit_schema_edit_mode(r) == [r EXCEPT !.schema_edit_mode = FALSE, !.schema_edit_buffer = <<>>]

exit_schema_insert_mode(r) ==
    [r EXCEPT !.schema_insert_mode = FALSE, !.schema_insert_row = MapEmpty,
              !.schema_edit_buffer = <<>>]

discard_schema_changes(r) ==
    LET r1 == [r EXCEPT !.schema_modified_cells = MapEmpty, !.schema_insert_row = MapEmpty,
                        !.schema_edit_buffer = <<>>]
        r2 == IF r1.schema_edit_mode THEN exit_schema_edit_mode(r1) ELSE r1
    IN  IF r2.schema_insert_mode THEN exit_schema_insert_mode(r2) ELSE r2

has_any_changes(r) ==
    \/ ~MapIsEmpty(r.modified_cells) \/ ~MapIsEmpty(r.insert_row)
    \/ ~MapIsEmpty(r.schema_modified_cells) \/ ~MapIsEmpty(r.schema_insert_row)

switch_to_data_tab(r) == [r EXCEPT !.active_tab = "Data"]
switch_to_schema_tab(r) == [r EXCEPT !.active_tab = "Schema"]
switch_to_indexes_tab(r) == [r EXCEPT !.active_tab = "Indexes"]

set_schema_info(r, schema) == [r EXCEPT !.schema_info = Some(schema)]

set_schema_columns(r, columns) ==
    [r EXCEPT !.schema_columns = columns, !.schema_table_state = Some(0)]

set_indexes_info(r, indexes) == [r EXCEPT !.indexes_info = Some(indexes)]

\* ColumnInfo fields by schema column index
ColumnField(ci, col) ==
    CASE col = 0 -> ci.name
      [] col = 1 -> ci.data_type
      [] col = 2 -> ci.nullable
      [] col = 3 -> ci.default_value
      [] col = 4 -> ci.extra
      [] OTHER -> <<>>

get_schema_cell_value(r, row, col) ==
    IF <<row, col>> \in DOMAIN r.schema_modified_cells THEN r.schema_modified_cells[<<row, col>>]
    ELSE IF row < Len(r.schema_columns) THEN ColumnField(r.schema_columns[row + 1], col)
    ELSE <<>>

enter_schema_edit_mode(r) ==
    IF Len(r.schema_columns) > 0
    THEN [r EXCEPT !.schema_edit_mode = TRUE,
                   !.schema_edit_buffer =
                       get_schema_cell_value(r, UnwrapOr(r.schema_table_state, 0),
                                             r.schema_selected_column)]
    ELSE r

enter_schema_insert_mode(r) ==
    [r EXCEPT !.schema_insert_mode = TRUE, !.schema_selected_column = 0,
              !.schema_edit_buffer = <<>>]

save_schema_cell_edit(r) ==
    [r EXCEPT !.schema_modified_cells =
        MapPut(@, <<UnwrapOr(r.schema_table_state, 0), r.schema_selected_column>>,
               r.schema_edit_buffer)]

save_schema_insert_field(r) ==
    [r EXCEPT !.schema_insert_row = MapPut(@, r.schema_selected_column, r.schema_edit_buffer),
              !.schema_edit_buffer = <<>>]

schema_move_column_left(r) ==
    IF r.schema_selected_column > 0
    THEN LET r1 == [save_schema_cell_edit(r) EXCEPT !.schema_selected_column = @ - 1]
         IN  [r1 EXCEPT !.schema_edit_buffer =
                 get_schema_cell_value(r1, UnwrapOr(r1.schema_table_state, 0),
                                       r1.schema_selected_column)]
    ELSE r

schema_move_column_right(r) ==
    IF r.schema_selected_column < SchemaLastColumn
    THEN LET r1 == [save_schema_cell_edit(r) EXCEPT !.schema_selected_column = @ + 1]
         IN  [r1 EXCEPT !.schema_edit_buffer =
                 get_schema_cell_value(r1, UnwrapOr(r1.schema_table_state, 0),
                                       r1.schema_selected_column)]
    ELSE r

schema_insert_char(r, c) == [r EXCEPT !.schema_edit_buffer = Append(@, c)]

schema_backspace(r) == [r EXCEPT !.schema_edit_buffer = Pop(@)]

schema_move_up(r) ==
    LET selected == UnwrapOr(r.schema_table_state, 0)
    IN  IF selected > 0 THEN [r EXCEPT !.schema_table_state = Some(selected - 1)] ELSE r

schema_move_down(r) ==
    LET selected == UnwrapOr(r.schema_table_state, 0)
    IN  IF Len(r.schema_columns) > 0 /\ selected < Len(r.schema_columns) - 1
        THEN [r EXCEPT !.schema_table_state = Some(selected + 1)]
        ELSE r

\* ---------------------------------------------------------------- ConnectionManager (src/ui/connection_manager.rs)

StrLocalhost == <<"l", "o", "c", "a", "l", "h", "o", "s", "t">>
Str3306 == <<"3", "3", "0", "6">>
StrMysqlUrl == <<"m", "y", "s", "q", "l", ":", "/", "/">>

ConnectionForm_default ==
    [name |-> <<>>, db_type |-> "SQLite", connection_string |-> <<>>, username |-> <<>>,
     password |-> <<>>, host |-> StrLocalhost, port |-> Str3306, database |-> <<>>,
     active_field |-> "Name"]

\* ConnectionManagerMode: <<"List">>, <<"Add">> or <<"Edit", index>>
ConnectionManager_new ==
    [visible |-> FALSE, mode |-> <<"List">>, form |-> ConnectionForm_default,
     list_state |-> Some(0), test_result |-> None]

IsFormMode(m) == m.mode[1] \in {"Add", "Edit"}

\* show that keeps the mode the overlay was left in
cm_show_keeping_mode(m) == [m EXCEPT !.visible = TRUE]

cm_show(m) == [m EXCEPT !.visible = TRUE, !.mode = <<"List">>]

cm_hide(m) == [m EXCEPT !.visible = FALSE, !.test_result = None]

show_add_form(m) ==
    [m EXCEPT !.mode = <<"Add">>, !.form = ConnectionForm_default, !.test_result = None]

\* show_edit_form for a connection stored without components.  A stored MySQL or
\* MariaDB connection always has its components (save_connection_from_form requires
\* a user name), so parse_connection_string is never reached.
show_edit_form(m, index, name, db_type, connection_string) ==
    [m EXCEPT !.mode = <<"Edit", index>>,
              !.form = [name |-> name, db_type |-> db_type,
                        connection_string |-> connection_string, username |-> <<>>,
                        password |-> <<>>, host |-> StrLocalhost, port |-> Str3306,
                        database |-> <<>>, active_field |-> "Name"],
              !.test_result = None]

show_edit_form_detailed(m, index, name, db_type, connection_string, username, password, host, port, database) ==
    [m EXCEPT !.mode = <<"Edit", index>>,
              !.form = [name |-> name, db_type |-> db_type,
                        connection_string |-> connection_string,
                        username |-> UnwrapOr(username, <<>>),
                        password |-> UnwrapOr(password, <<>>),
                        host |-> UnwrapOr(host, StrLocalhost),
                        port |-> UnwrapOr(port, Str3306),
                        database |-> UnwrapOr(database, <<>>), active_field |-> "Name"],
              !.test_result = None]

next_field(m) ==
    LET f == m.form.active_field
    IN  [m EXCEPT !.form.active_field =
            IF m.form.db_type = "SQLite"
            THEN CASE f = "Name" -> "Type"
                   [] f = "Type" -> "ConnectionString"
                   [] f = "ConnectionString" -> "Name"
                   [] OTHER -> "Name"
            ELSE CASE f = "Name" -> "Type"
                   [] f = "Type" -> "Host"
                   [] f = "Host" -> "Port"
                   [] f = "Port" -> "Username"
                   [] f = "Username" -> "Password"
                   [] f = "Password" -> "Database"
                   [] f = "Database" -> "Name"
                   [] OTHER -> "Name"]

prev_field(m) ==
    LET f == m.form.active_field
    IN  [m EXCEPT !.form.active_field =
            IF m.form.db_type = "SQLite"
            THEN CASE f = "Name" -> "ConnectionString"
                   [] f = "Type" -> "Name"
                   [] f = "ConnectionString" -> "Type"
                   [] OTHER -> "Name"
            ELSE CASE f = "Name" -> "Database"
                   [] f = "Type" -> "Name"
                   [] f = "Host" -> "Type"
                   [] f = "Port" -> "Host"
                   [] f = "Username" -> "Port"
                   [] f = "Password" -> "Username"
                   [] f = "Database" -> "Password"
                   [] OTHER -> "Name"]

cycle_db_type(m) ==
    [m EXCEPT !.form.db_type = CASE @ = "SQLite" -> "MySQL"
                                 [] @ = "MySQL" -> "MariaDB"
                                 [] @ = "MariaDB" -> "SQLite"]

cm_insert_char(m, c) ==
    LET f == m.form.active_field
    IN  CASE f = "Name" -> [m EXCEPT !.form.name = Append(@, c)]
          [] f = "ConnectionString" -> [m EXCEPT !.form.connection_string = Append(@, c)]
          [] f = "Username" -> [m EXCEPT !.form.username = Append(@, c)]
          [] f = "Password" -> [m EXCEPT !.form.password = Append(@, c)]
          [] f = "Host" -> [m EXCEPT !.form.host = Append(@, c)]
          [] f = "Port" -> IF is_ascii_digit(c) THEN [m EXCEPT !.form.port = Append(@, c)] ELSE m
          [] f = "Database" -> [m EXCEPT !.form.database = Append(@, c)]
          [] f = "Type" -> m

cm_delete_char(m) ==
    LET f == m.form.active_field
    IN  CASE f = "Name" -> [m EXCEPT !.form.name = Pop(@)]
          [] f = "ConnectionString" -> [m EXCEPT !.form.connection_string = Pop(@)]
          [] f = "Username" -> [m EXCEPT !.form.username = Pop(@)]
          [] f = "Password" -> [m EXCEPT !.form.password = Pop(@)]
          [] f = "Host" -> [m EXCEPT !.form.host = Pop(@)]
          [] f = "Port" -> [m EXCEPT !.form.port = Pop(@)]
          [] f = "Database" -> [m EXCEPT !.form.database = Pop(@)]
          [] f = "Type" -> m

move_list_up(m) ==
    LET selected == UnwrapOr(m.list_state, 0)
    IN  IF selected > 0 THEN [m EXCEPT !.list_state = Some(selected - 1)] ELSE m

move_list_down(m, max) ==
    LET selected == UnwrapOr(m.list_state, 0)
    IN  IF selected < SatSub(max, 1) THEN [m EXCEPT !.list_state = Some(selected + 1)] ELSE m

get_connection_string(m) ==
    LET f == m.form
        host == IF Len(f.host) = 0 THEN StrLocalhost ELSE f.host
        port == IF Len(f.port) = 0 THEN Str3306 ELSE f.port
    IN  IF f.db_type = "SQLite" THEN f.connection_string
        ELSE StrMysqlUrl
             \o (IF Len(f.username) > 0
                 THEN f.username
                      \o (IF Len(f.password) > 0 THEN <<":">> \o f.password ELSE <<>>)
                      \o <<"@">>
                 ELSE <<>>)
             \o host
             \o (IF port /= Str3306 THEN <<":">> \o port ELSE <<>>)
             \o (IF Len(f.database) > 0 THEN <<"/">> \o f.database ELSE <<>>)

\* ---------------------------------------------------------------- Config (src/config.rs)

ConnectionConfig(name, connection_string, db_type, username, password, host, port, database) ==
    [name |-> name, connection_string |-> connection_string, db_type |-> db_type,
     username |-> username, password |-> password, host |-> host, port |-> port,
     database |-> database]

config_add_connection_detailed(cfg, name, connection_string, db_type, username, password, host, port, database) ==
    IF \E i \in 1..Len(cfg.connections) :
          cfg.connections[i].name = name /\ cfg.connections[i].connection_string = connection_string
    THEN cfg
    ELSE [cfg EXCEPT !.connections =
            Append(@, ConnectionConfig(name, connection_string, db_type, username, password,
                                       host, port, database))]

config_add_connection(cfg, name, connection_string, db_type) ==
    config_add_connection_detailed(cfg, name, connection_string, db_type,
                                   None, None, None, None, None)

\* Vec::retain(|c| c.name != name)
RECURSIVE RetainOthers(_, _)
RetainOthers(cs, name) ==
    IF Len(cs) = 0 THEN <<>>
    ELSE (IF cs[1].name /= name THEN <<cs[1]>> ELSE <<>>) \o RetainOthers(Tail(cs), name)

config_remove_connection(cfg, name) ==
    [cfg EXCEPT !.connections = RetainOthers(@, name)]

\* ---------------------------------------------------------------- the database collaborator

\* The SQLite file the explored runs open, and what it holds.
DbPath == <<"d">>
DbTableList == << [name |-> <<"t">>, row_count |-> Some(3)] >>
DbColumns == <<"id", "v">>
DbRows == << << <<"1">>, <<"a">> >>, << <<"2">>, <<>> >>, << <<"3">>, <<"b">> >> >>
DbSchemaColumns ==
    << [name |-> <<"i">>, data_type |-> <<"I">>, nullable |-> <<"N">>, default_value |-> <<>>,
        extra |-> <<"P">>],
       [name |-> <<"v">>, data_type |-> <<"T">>, nullable |-> <<"Y">>, default_value |-> <<>>,
        extra |-> <<>>] >>

QueryResult_new(columns, rows) == [columns |-> columns, rows |-> rows]

\* DatabaseConnection::get_table_data
get_table_data(table_name) ==
    IF table_name = <<"t">> THEN QueryResult_new(DbColumns, DbRows)
    ELSE QueryResult_new(DbColumns, <<>>)

\* One key event's collaborator outcome: which call fails, if any ("none",
\* "connect", "list_tables", "query", "reload" or "save"), and the result a
\* successful execute_query returns.  MySQL/MariaDB servers are not reachable:
\* MySQLConnection::connect fails.
EnvOk == [fail |-> "none", result |-> QueryResult_new(DbColumns, DbRows)]

ConnectFails(db_type, env) == db_type /= "SQLite" \/ env.fail = "connect"

\* ---------------------------------------------------------------- App (src/app.rs)

\* A result of a fallible App method: the App as the call left it and whether it
\* returned Err.
Ok(a) == [app |-> a, err |-> FALSE]
Err(a) == [app |-> a, err |-> TRUE]

\* update_focus that marks the active pane and forgets to unmark the others
update_focus_marking_only(a) ==
    [a EXCEPT !.database_browser.focused = @ \/ (a.active_pane = "DatabaseBrowser"),
              !.query_editor.focused = @ \/ (a.active_pane = "QueryEditor"),
              !.results_viewer.focused = @ \/ (a.active_pane = "Results")]

update_focus(a) ==
    [a EXCEPT !.database_browser.focused = (a.active_pane = "DatabaseBrowser"),
              !.query_editor.focused = (a.active_pane = "QueryEditor"),
              !.results_viewer.focused = (a.active_pane = "Results")]

next_pane(a) ==
    update_focus([a EXCEPT !.active_pane = CASE @ = "DatabaseBrowser" -> "QueryEditor"
                                             [] @ = "QueryEditor" -> "Results"
                                             [] @ = "Results" -> "DatabaseBrowser"])

\* prev_pane that goes the way next_pane goes
prev_pane_going_forward(a) == next_pane(a)

prev_pane(a) ==
    update_focus([a EXCEPT !.active_pane = CASE @ = "DatabaseBrowser" -> "Results"
                                             [] @ = "QueryEditor" -> "DatabaseBrowser"
                                             [] @ = "Results" -> "QueryEditor"])

\* self.connections.get_mut(&conn_id) for conn_id = database_browser.selected_connection
HasActiveConnection(a) ==
    /\ IsSome(a.database_browser.selected_connection)
    /\ Unwrap(a.database_browser.selected_connection) \in a.connections

\* The text after the last occurrence of sep (the whole text when there is none):
\* Path::file_name of a path that does not end in a separator, and
\* split(sep).next_back().
AfterLast(str, sep) ==
    LET at == {i \in 1..Len(str) : str[i] = sep}
    IN  IF at = {} THEN str
        ELSE SubSeq(str, (CHOOSE i \in at : \A j \in at : j <= i) + 1, Len(str))

\* split(sep).next()
BeforeFirst(str, sep) ==
    LET at == {i \in 1..Len(str) : str[i] = sep}
    IN  IF at = {} THEN str
        ELSE SubSeq(str, 1, (CHOOSE i \in at : \A j \in at : i <= j) - 1)

\* The connection name open_database_with_save derives.
ConnectionName(connection_string, db_type) ==
    CASE db_type = "SQLite" ->
            IF Len(AfterLast(connection_string, "/")) = 0 THEN connection_string
            ELSE AfterLast(connection_string, "/")
      [] db_type = "MySQL" ->
            <<"M", "y", "S", "Q", "L", ":", " ">>
                \o BeforeFirst(AfterLast(connection_string, "/"), "?")
      [] db_type = "MariaDB" ->
            <<"M", "a", "r", "i", "a", "D", "B", ":", " ">>
                \o BeforeFirst(AfterLast(connection_string, "/"), "?")

DbTypeStr(db_type) ==
    CASE db_type = "SQLite" -> "sqlite" [] db_type = "MySQL" -> "mysql"
      [] db_type = "MariaDB" -> "mariadb"

open_database_with_save(a, connection_string, db_type, save_to_config, env) ==
    LET b == a.database_browser
        found == {i \in 1..Len(b.connections) :
                    b.connections[i].connection_string = connection_string}
    IN  IF found /= {} THEN
            LET id == b.connections[CHOOSE i \in found : \A j \in found : i <= j].id
                a1 == [a EXCEPT !.database_browser.selected_connection = Some(id)]
            IN  IF id \notin a.connections THEN
                    IF ConnectFails(db_type, env) THEN Err(a1)
                    ELSE IF env.fail = "list_tables" THEN Err(a1)
                    ELSE Ok([a1 EXCEPT !.database_browser = set_tables(@, DbTableList),
                                       !.connections = @ \cup {id}])
                ELSE Ok(a1)
        ELSE IF ConnectFails(db_type, env) THEN Err(a)
        ELSE
            LET id == a.next_connection_id
                name == ConnectionName(connection_string, db_type)
                conn_info == [id |-> id, name |-> name, db_type |-> db_type,
                              connection_string |-> connection_string]
                a1 == [a EXCEPT !.next_connection_id = @ + 1,
                                !.database_browser =
                                    [add_connection(@, conn_info) EXCEPT
                                        !.selected_connection = Some(id)]]
            IN  IF env.fail = "list_tables" THEN Err(a1)
                ELSE
                LET a2 == [a1 EXCEPT !.database_browser = set_tables(@, DbTableList),
                                     !.connections = @ \cup {id}]
                IN  IF save_to_config
                    THEN LET a3 == [a2 EXCEPT !.config =
                                       config_add_connection(@, name, connection_string,
                                                             DbTypeStr(db_type))]
                         IN  IF env.fail = "save" THEN Err(a3) ELSE Ok(a3)
                    ELSE Ok(a2)

open_database(a, connection_string, db_type, env) ==
    open_database_with_save(a, connection_string, db_type, TRUE, env)

open_database_no_save(a, connection_string, db_type, env) ==
    open_database_with_save(a, connection_string, db_type, FALSE, env)

\* go_back_to_database_list; the MySQL branch needs a MySQL connection, which no
\* explored run has.
go_back_to_database_list(a) ==
    Ok([a EXCEPT !.database_browser = go_back_to_databases(@)])

Whitespace == {" ", "\n", "\t"}
\* query.trim().is_empty()
IsBlank(q) == \A i \in 1..Len(q) : q[i] \in Whitespace

\* The text between the semicolons around the cursor (before trimming).
get_query_at_cursor(e) ==
    LET full_text == get_query(e)
        before == Flatten([i \in 1..e.cursor_line |-> e.content[i] \o <<"\n">>])
        cursor_pos == Len(before) + e.cursor_col
        semisBefore == {i \in 1..cursor_pos : full_text[i] = ";"}
        semisAfter == {i \in (cursor_pos + 1)..Len(full_text) : full_text[i] = ";"}
        start == IF semisBefore = {} THEN 0
                 ELSE CHOOSE i \in semisBefore : \A j \in semisBefore : j <= i
        end == IF semisAfter = {} THEN Len(full_text)
               ELSE CHOOSE i \in semisAfter : \A j \in semisAfter : i <= j
    IN  SubSeq(full_text, start + 1, end)

\* The tail shared by execute_query and execute_query_at_cursor.
RunQuery(a, query, env) ==
    IF IsBlank(query) THEN Ok(a)
    ELSE IF HasActiveConnection(a) THEN
        IF env.fail = "query" THEN Err(a)
        ELSE Ok(update_focus([a EXCEPT !.results_viewer = set_result(@, env.result),
                                       !.active_pane = "Results"]))
    ELSE Ok(a)

execute_query(a, env) == RunQuery(a, get_query(a.query_editor), env)

execute_query_at_cursor(a, env) == RunQuery(a, get_query_at_cursor(a.query_editor), env)

\* load_selected_table_data for an SQLite connection (no explored run has a MySQL one).
load_selected_table_data(a, env) ==
    LET sel == get_selected_table(a.database_browser)
    IN  IF IsNone(sel) THEN Ok(a)
        ELSE IF HasActiveConnection(a) THEN
            IF env.fail = "query" THEN Err(a)
            ELSE LET selected_name == Unwrap(sel).name
                     r1 == set_table_name(set_result(a.results_viewer,
                                                     get_table_data(selected_name)),
                                          selected_name)
                     r2 == set_indexes_info(
                              set_schema_columns(set_schema_info(r1, "ddl"), DbSchemaColumns),
                              <<>>)
                 IN  Ok(update_focus([a EXCEPT !.results_viewer = r2,
                                               !.active_pane = "Results"]))
        ELSE Ok(a)

\* Reload of the current table after a save.
ReloadTable(a, env) ==
    IF IsSome(a.results_viewer.table_name) THEN
        IF env.fail = "reload" THEN Err(a)
        ELSE LET t == Unwrap(a.results_viewer.table_name)
             IN  Ok([a EXCEPT !.results_viewer = set_table_name(set_result(@, get_table_data(t)), t)])
    ELSE Ok(a)

save_table_edits(a, env) ==
    IF ~has_modifications(a.results_viewer) THEN Ok(a)
    ELSE IF generate_update_queries(a.results_viewer) = {} THEN Ok(a)
    ELSE IF HasActiveConnection(a) THEN
        IF env.fail = "query" THEN Err(a)
        ELSE ReloadTable([a EXCEPT !.results_viewer = clear_modifications(@)], env)
    ELSE Ok(a)

save_insert_row(a, env) ==
    IF ~has_insert_data(a.results_viewer) THEN Ok(a)
    ELSE LET a1 == [a EXCEPT !.results_viewer = save_insert_field(@)]
         IN  IF IsNone(generate_insert_query(a1.results_viewer)) THEN Ok(a1)
             ELSE IF HasActiveConnection(a1) THEN
                 IF env.fail = "query" THEN Err(a1)
                 ELSE ReloadTable([a1 EXCEPT !.results_viewer =
                                                exit_insert_mode(clear_insert_data(@)),
                                             !.vim_state = enter_normal_mode(@)], env)
             ELSE Ok(a1)

\* Reload of the schema after a schema save (get_table_schema and get_column_info
\* swallow their query errors).
ReloadSchema(a) ==
    [a EXCEPT !.results_viewer = set_schema_columns(set_schema_info(@, "ddl"), DbSchemaColumns)]

save_schema_edits(a, env) ==
    LET r == a.results_viewer
    IN  IF IsNone(r.table_name) THEN Ok(a)
        ELSE IF MapIsEmpty(r.schema_modified_cells) THEN Ok(a)
        ELSE IF HasActiveConnection(a) THEN
            IF env.fail = "query"
                 /\ \E k \in DOMAIN r.schema_modified_cells : k[1] < Len(r.schema_columns)
            THEN Err(a)
            ELSE Ok(ReloadSchema([a EXCEPT !.results_viewer =
                        exit_schema_edit_mode([@ EXCEPT !.schema_modified_cells = MapEmpty])]))
        ELSE Ok(a)

save_schema_insert_column(a, env) ==
    IF IsNone(a.results_viewer.table_name) THEN Ok(a)
    ELSE LET a1 == [a EXCEPT !.results_viewer = save_schema_insert_field(@)]
             row == a1.results_viewer.schema_insert_row
             column_name == UnwrapOr(MapGet(row, 0), <<>>)
             data_type == UnwrapOr(MapGet(row, 1), <<>>)
         IN  IF Len(column_name) = 0 \/ Len(data_type) = 0 THEN Ok(a1)
             ELSE IF HasActiveConnection(a1) THEN
                 IF env.fail = "query" THEN Err(a1)
                 ELSE Ok(ReloadSchema([a1 EXCEPT !.results_viewer = exit_schema_insert_mode(@)]))
             ELSE Ok(a1)

refresh_current_table(a, env) ==
    IF IsNone(a.results_viewer.table_name) THEN Ok(a)
    ELSE IF HasActiveConnection(a) THEN
        IF env.fail = "query" THEN Err(a)
        ELSE LET t == Unwrap(a.results_viewer.table_name)
                 r1 == set_result(a.results_viewer, get_table_data(t))
                 r2 == set_indexes_info(
                          set_schema_columns(set_schema_info(r1, "ddl"), DbSchemaColumns), <<>>)
             IN  Ok([a EXCEPT !.results_viewer = discard_schema_changes(discard_all_changes(r2))])
    ELSE Ok(a)

delete_connection(a, env) ==
    LET sel == get_selected_connection(a.database_browser)
    IN  IF IsNone(sel) THEN Ok(a)
        ELSE LET conn_info == Unwrap(sel)
                 a1 == [a EXCEPT !.connections = @ \ {conn_info.id},
                                 !.database_browser = remove_connection(@, conn_info.id),
                                 !.config = config_remove_connection(@, conn_info.name)]
             IN  IF env.fail = "save" THEN Err(a1)
                 ELSE Ok([a1 EXCEPT !.results_viewer =
                             [results_clear(@) EXCEPT !.table_name = None]])

\* conn.db_type.as_str() of a stored connection
DbTypeOf(db_type_str) ==
    CASE db_type_str = "mysql" -> "MySQL"
      [] db_type_str = "mariadb" -> "MariaDB"
      [] OTHER -> "SQLite"

build_connection_string_from_config(conn, db_type) ==
    IF db_type = "SQLite" THEN conn.connection_string
    ELSE LET port == UnwrapOr(conn.port, Str3306)
         IN  StrMysqlUrl
             \o (IF IsSome(conn.username)
                 THEN Unwrap(conn.username)
                      \o (IF IsSome(conn.password) THEN <<":">> \o Unwrap(conn.password)
                          ELSE <<>>)
                      \o <<"@">>
                 ELSE <<>>)
             \o UnwrapOr(conn.host, StrLocalhost)
             \o (IF port /= Str3306 THEN <<":">> \o port ELSE <<>>)
             \o (IF IsSome(conn.database) /\ Len(Unwrap(conn.database)) > 0
                 THEN <<"/">> \o Unwrap(conn.database) ELSE <<>>)

test_connection(a, connection_string, db_type, env) ==
    Ok([a EXCEPT !.connection_manager.test_result =
            IF ConnectFails(db_type, env) THEN Some("Error: connection failed")
            ELSE Some("Success: Connection successful!")])

\* connections.get(selected) of the stored connections
StoredConnection(a) ==
    LET sel == a.connection_manager.list_state
    IN  IF IsSome(sel) /\ Unwrap(sel) < Len(a.config.connections)
        THEN Some(a.config.connections[Unwrap(sel) + 1]) ELSE None

handle_connection_manager_action(a, action, env) ==
    IF a.connection_manager.mode /= <<"List">> THEN Ok(a)
    ELSE
    LET stored == StoredConnection(a)
        selected == UnwrapOr(a.connection_manager.list_state, 0)
    IN  CASE action = "n" -> Ok([a EXCEPT !.connection_manager = show_add_form(@)])
          [] action = "e" ->
                IF IsNone(stored) THEN Ok(a)
                ELSE LET conn == Unwrap(stored)
                         db_type == DbTypeOf(conn.db_type)
                     IN  IF IsSome(conn.username) \/ IsSome(conn.password) \/ IsSome(conn.host)
                              \/ IsSome(conn.port) \/ IsSome(conn.database)
                         THEN Ok([a EXCEPT !.connection_manager =
                                    show_edit_form_detailed(@, selected, conn.name, db_type,
                                        conn.connection_string, conn.username, conn.password,
                                        conn.host, conn.port, conn.database)])
                         ELSE Ok([a EXCEPT !.connection_manager =
                                    show_edit_form(@, selected, conn.name, db_type,
                                                   conn.connection_string)])
          [] action = "d" ->
                IF IsNone(stored) THEN Ok(a)
                ELSE LET a1 == [a EXCEPT !.config =
                                   config_remove_connection(@, Unwrap(stored).name)]
                         conn_count == Len(a1.config.connections)
                     IN  IF env.fail = "save" THEN Err(a1)
                         ELSE IF selected >= conn_count /\ conn_count > 0
                         THEN Ok([a1 EXCEPT !.connection_manager.list_state =
                                               Some(conn_count - 1)])
                         ELSE Ok(a1)
          [] action = "t" ->
                IF IsNone(stored) THEN Ok(a)
                ELSE test_connection(a, Unwrap(stored).connection_string,
                                     DbTypeOf(Unwrap(stored).db_type), env)
          [] action = "\n" ->
                LET hideIfNoResult(b) ==
                        IF IsNone(b.connection_manager.test_result)
                        THEN [b EXCEPT !.connection_manager = cm_hide(@)] ELSE b
                IN  IF IsNone(stored) THEN Ok(hideIfNoResult(a))
                    ELSE LET conn == Unwrap(stored)
                             db_type == DbTypeOf(conn.db_type)
                             conn_str ==
                                 IF db_type /= "SQLite"
                                      /\ (IsSome(conn.username) \/ IsSome(conn.host))
                                 THEN build_connection_string_from_config(conn, db_type)
                                 ELSE conn.connection_string
                             opened == open_database_no_save(a, conn_str, db_type, env)
                         IN  IF opened.err
                             THEN Ok([opened.app EXCEPT !.connection_manager.test_result =
                                         Some("Connection failed")])
                             ELSE Ok(hideIfNoResult(
                                     [opened.app EXCEPT !.connection_manager = cm_hide(@)]))
          [] OTHER -> Ok(a)

\* None for an empty form field, Some(text) otherwise
NonEmpty(text) == IF Len(text) = 0 THEN None ELSE Some(text)

save_connection_from_form(a, env) ==
    LET m == a.connection_manager
        f == m.form
        fail(msg) == Ok([a EXCEPT !.connection_manager.test_result = Some(msg)])
    IN  IF Len(f.name) = 0 THEN fail("Error: Name is required")
        ELSE IF f.db_type = "SQLite" /\ Len(f.connection_string) = 0
        THEN fail("Error: File path is required")
        ELSE IF f.db_type /= "SQLite" /\ Len(f.username) = 0
        THEN fail("Error: Username is required")
        ELSE IF f.db_type /= "SQLite" /\ Len(f.host) = 0 THEN fail("Error: Host is required")
        ELSE IF f.db_type /= "SQLite" /\ Len(f.port) = 0 THEN fail("Error: Port is required")
        ELSE
        LET mysql == f.db_type /= "SQLite"
            opt(text) == IF mysql THEN NonEmpty(text) ELSE None
            add(cfg) == config_add_connection_detailed(cfg, f.name, get_connection_string(m),
                            DbTypeStr(f.db_type), opt(f.username), opt(f.password),
                            opt(f.host), opt(f.port), opt(f.database))
            old == IF m.mode[1] = "Edit" /\ m.mode[2] < Len(a.config.connections)
                   THEN Some(a.config.connections[m.mode[2] + 1].name) ELSE None
            cfg1 == IF m.mode[1] = "Edit" /\ IsSome(old)
                    THEN config_remove_connection(a.config, Unwrap(old)) ELSE a.config
            a1 == [a EXCEPT !.config = add(cfg1)]
        IN  IF m.mode[1] \notin {"Add", "Edit"} THEN Ok(a)
            ELSE IF env.fail = "save" THEN Err(a1)
            ELSE Ok([a1 EXCEPT !.connection_manager.mode = <<"List">>,
                               !.connection_manager.test_result = None])

\* str::split_whitespace and [..].join(" ")
RECURSIVE split_whitespace(_)
split_whitespace(str) ==
    IF Len(str) = 0 THEN <<>>
    ELSE IF str[1] \in Whitespace THEN split_whitespace(Tail(str))
    ELSE LET stops == {i \in 1..Len(str) : str[i] \in Whitespace}
             n == IF stops = {} THEN Len(str) + 1
                  ELSE CHOOSE i \in stops : \A j \in stops : i <= j
         IN  <<SubSeq(str, 1, n - 1)>> \o split_whitespace(SubSeq(str, n, Len(str)))

RECURSIVE JoinSpace(_)
JoinSpace(parts) ==
    IF Len(parts) = 0 THEN <<>>
    ELSE IF Len(parts) = 1 THEN parts[1]
    ELSE parts[1] \o <<" ">> \o JoinSpace(Tail(parts))

\* execute_command that takes every command for `open` and opens what follows the
\* first word, even nothing
execute_command_opening_anything(a, cmd, env) ==
    IF Len(split_whitespace(cmd)) = 0 THEN Ok(a)
    ELSE open_database(a, JoinSpace(Tail(split_whitespace(cmd))), "SQLite", env)

execute_command(a, cmd, env) ==
    LET parts == split_whitespace(cmd)
    IN  IF Len(parts) = 0 THEN Ok(a)
        ELSE
        LET word == parts[1]
            rest == JoinSpace(Tail(parts))
        IN  CASE word \in {<<"q">>, <<"q", "u", "i", "t">>} -> Ok([a EXCEPT !.should_quit = TRUE])
              [] word = <<"o", "p", "e", "n">> ->
                    IF Len(parts) < 2 THEN Ok(a) ELSE open_database(a, rest, "SQLite", env)
              [] word = <<"m", "y", "s", "q", "l">> ->
                    IF Len(parts) < 2 THEN Ok(a) ELSE open_database(a, rest, "MySQL", env)
              [] word = <<"m", "a", "r", "i", "a", "d", "b">> ->
                    IF Len(parts) < 2 THEN Ok(a) ELSE open_database(a, rest, "MariaDB", env)
              [] word \in {<<"e", "x", "e", "c">>, <<"e", "x", "e", "c", "u", "t", "e">>} ->
                    execute_query(a, env)
              [] word = <<"c", "l", "e", "a", "r">> ->
                    Ok([a EXCEPT !.query_editor = editor_clear(@),
                                 !.results_viewer = results_clear(@)])
              [] word \in {<<"d", "i", "s", "c", "o", "n", "n", "e", "c", "t">>,
                           <<"c", "l", "o", "s", "e">>} ->
                    delete_connection(a, env)
              [] word \in {<<"c", "o", "n", "n", "e", "c", "t", "i", "o", "n", "s">>,
                           <<"c", "o", "n", "n">>} ->
                    Ok([a EXCEPT !.connection_manager = cm_show(@)])
              [] OTHER -> Ok(a)

\* for _ in 0..count { step }
Times(step(_), x, count) ==
    LET f[i \in 0..count] == IF i = 0 THEN x ELSE step(f[i - 1])
    IN  f[count]

\* The arms of execute_vim_command for MoveUp / MoveDown / MoveLeft / MoveRight.
execute_move(a, name, count) ==
    LET pane == a.active_pane
        r == a.results_viewer
    IN  CASE name = "MoveUp" ->
                IF pane = "DatabaseBrowser"
                THEN [a EXCEPT !.database_browser = Times(browser_move_up, @, count)]
                ELSE IF pane = "QueryEditor"
                THEN [a EXCEPT !.query_editor = editor_move_up(@, count)]
                ELSE IF r.active_tab = "Schema"
                THEN [a EXCEPT !.results_viewer = Times(schema_move_up, @, count)]
                ELSE [a EXCEPT !.results_viewer = results_move_up(@, count)]
          [] name = "MoveDown" ->
                IF pane = "DatabaseBrowser"
                THEN [a EXCEPT !.database_browser = Times(browser_move_down, @, count)]
                ELSE IF pane = "QueryEditor"
                THEN [a EXCEPT !.query_editor = editor_move_down(@, count)]
                ELSE IF r.active_tab = "Schema"
                THEN [a EXCEPT !.results_viewer = Times(schema_move_down, @, count)]
                ELSE [a EXCEPT !.results_viewer = results_move_down(@, count)]
          [] name = "MoveLeft" ->
                IF pane = "QueryEditor"
                THEN [a EXCEPT !.query_editor = editor_move_left(@, count)]
                ELSE IF pane = "Results" /\ r.edit_mode
                THEN [a EXCEPT !.results_viewer =
                        Times(LAMBDA x : move_column_left(save_cell_edit(x)), @, count)]
                ELSE IF pane = "Results" /\ r.insert_mode
                THEN [a EXCEPT !.results_viewer =
                        Times(LAMBDA x : move_column_left(save_insert_field(x)), @, count)]
                ELSE IF pane = "Results"
                THEN [a EXCEPT !.results_viewer = Times(move_column_left, @, count)]
                ELSE a
          [] name = "MoveRight" ->
                IF pane = "QueryEditor"
                THEN [a EXCEPT !.query_editor = editor_move_right(@, count)]
                ELSE IF pane = "Results" /\ r.edit_mode
                THEN [a EXCEPT !.results_viewer =
                        Times(LAMBDA x : move_column_right(save_cell_edit(x)), @, count)]
                ELSE IF pane = "Results" /\ r.insert_mode
                THEN [a EXCEPT !.results_viewer =
                        Times(LAMBDA x : move_column_right(save_insert_field(x)), @, count)]
                ELSE IF pane = "Results"
                THEN [a EXCEPT !.results_viewer = Times(move_column_right, @, count)]
                ELSE a

MoveNames == {"MoveUp", "MoveDown", "MoveLeft", "MoveRight"}

execute_vim_command(a, command, env) ==
    LET name == command.name
        pane == a.active_pane
        r == a.results_viewer
    IN  CASE name = "Quit" -> Ok([a EXCEPT !.should_quit = TRUE])
          [] name = "ExecuteCommand" -> execute_command(a, command.text, env)
          [] name = "NextPane" -> Ok(next_pane(a))
          [] name = "PrevPane" -> Ok(prev_pane(a))
          [] name = "Activate" ->
                IF pane = "DatabaseBrowser" THEN load_selected_table_data(a, env) ELSE Ok(a)
          [] name = "ExecuteQueryUnderCursor" ->
                IF pane = "QueryEditor" THEN execute_query_at_cursor(a, env) ELSE Ok(a)
          [] name = "ExecuteAllQueries" ->
                IF pane = "QueryEditor" THEN execute_query(a, env) ELSE Ok(a)
          [] name \in {"EnterInsertMode", "EnterInsertModeAfter"} ->
                IF pane = "QueryEditor"
                THEN Ok([a EXCEPT !.vim_state = enter_insert_mode(@)]) ELSE Ok(a)
          [] name = "ExitInsertMode" ->
                LET a1 == [a EXCEPT !.vim_state = enter_normal_mode(@)]
                    a2 == IF pane = "Results" /\ a1.results_viewer.edit_mode
                          THEN [a1 EXCEPT !.results_viewer = save_cell_edit(@)] ELSE a1
                IN  IF pane = "Results" /\ a2.results_viewer.insert_mode
                    THEN Ok([a2 EXCEPT !.results_viewer = save_insert_field(@)]) ELSE Ok(a2)
          [] name = "EnterInsertRowMode" ->
                IF pane /= "Results" THEN Ok(a)
                ELSE IF r.active_tab = "Schema"
                THEN Ok([a EXCEPT !.results_viewer = enter_schema_insert_mode(@),
                                  !.vim_state = enter_insert_mode(@)])
                ELSE Ok([a EXCEPT !.results_viewer = results_enter_insert_mode(@),
                                  !.vim_state = enter_insert_mode(@)])
          [] name = "SaveInsertRow" ->
                IF pane = "Results" THEN save_insert_row(a, env) ELSE Ok(a)
          [] name = "EnterEditMode" ->
                IF pane /= "Results" THEN Ok(a)
                ELSE IF r.active_tab = "Schema"
                THEN Ok([a EXCEPT !.results_viewer = enter_schema_edit_mode(@),
                                  !.vim_state = enter_insert_mode(@)])
                ELSE Ok([a EXCEPT !.results_viewer = enter_edit_mode(@),
                                  !.vim_state = enter_insert_mode(@)])
          [] name = "ExitEditMode" ->
                IF pane /= "Results" THEN Ok(a)
                ELSE IF r.schema_edit_mode
                THEN Ok([a EXCEPT !.results_viewer = exit_schema_edit_mode(@),
                                  !.vim_state = enter_normal_mode(@)])
                ELSE IF r.edit_mode
                THEN Ok([a EXCEPT !.results_viewer = exit_edit_mode(@),
                                  !.vim_state = enter_normal_mode(@)])
                ELSE Ok(a)
          [] name = "MoveColumnLeft" ->
                IF pane = "Results" /\ r.edit_mode
                THEN Ok([a EXCEPT !.results_viewer = move_column_left(@)]) ELSE Ok(a)
          [] name = "MoveColumnRight" ->
                IF pane = "Results" /\ r.edit_mode
                THEN Ok([a EXCEPT !.results_viewer = move_column_right(@)]) ELSE Ok(a)
          [] name = "SaveAllEdits" ->
                IF pane /= "Results" THEN Ok(a)
                ELSE IF r.insert_mode THEN save_insert_row(a, env)
                ELSE save_table_edits(a, env)
          [] name = "EnterVisualMode" ->
                IF pane = "QueryEditor"
                THEN Ok([a EXCEPT !.query_editor = start_visual_mode(@)]) ELSE Ok(a)
          [] name = "ExitVisualMode" ->
                IF pane = "QueryEditor"
                THEN Ok([a EXCEPT !.query_editor = exit_visual_mode(@)]) ELSE Ok(a)
          [] name \in MoveNames -> Ok(execute_move(a, name, command.count))
          [] name = "GotoTop" ->
                IF pane = "QueryEditor" THEN Ok([a EXCEPT !.query_editor = editor_goto_top(@)])
                ELSE IF pane = "Results"
                THEN Ok([a EXCEPT !.results_viewer = results_goto_top(@)])
                ELSE Ok(a)
          [] name = "GotoBottom" ->
                IF pane = "QueryEditor"
                THEN Ok([a EXCEPT !.query_editor = editor_goto_bottom(@)])
                ELSE IF pane = "Results"
                THEN Ok([a EXCEPT !.results_viewer = results_goto_bottom(@)])
                ELSE Ok(a)
          [] name = "GotoLineStart" ->
                IF pane = "QueryEditor"
                THEN Ok([a EXCEPT !.query_editor = editor_goto_line_start(@)]) ELSE Ok(a)
          [] name = "GotoLineEnd" ->
                IF pane = "QueryEditor"
                THEN Ok([a EXCEPT !.query_editor = editor_goto_line_end(@)]) ELSE Ok(a)
          [] name = "InsertChar" ->
                IF a.vim_state.mode /= "Insert" THEN Ok(a)
                ELSE IF pane = "QueryEditor"
                THEN Ok([a EXCEPT !.query_editor = editor_insert_char(@, command.ch)])
                ELSE IF pane = "Results" /\ (r.edit_mode \/ r.insert_mode)
                THEN Ok([a EXCEPT !.results_viewer = edit_insert_char(@, command.ch)])
                ELSE Ok(a)
          [] name = "InsertNewline" ->
                IF a.vim_state.mode = "Insert" /\ pane = "QueryEditor"
                THEN Ok([a EXCEPT !.query_editor = editor_insert_newline(@)]) ELSE Ok(a)
          [] name = "Backspace" ->
                IF a.vim_state.mode /= "Insert" THEN Ok(a)
                ELSE IF pane = "QueryEditor"
                THEN Ok([a EXCEPT !.query_editor = editor_backspace(@)])
                ELSE IF pane = "Results" /\ (r.edit_mode \/ r.insert_mode)
                THEN Ok([a EXCEPT !.results_viewer = edit_backspace(@)])
                ELSE Ok(a)
          [] name = "DeleteChar" ->
                IF pane = "QueryEditor"
                THEN Ok([a EXCEPT !.query_editor = editor_delete_char(@)]) ELSE Ok(a)
          [] name = "YankSelection" ->
                IF pane /= "QueryEditor" THEN Ok(a)
                ELSE LET text == get_selection(a.query_editor)
                     IN  Ok([a EXCEPT !.clipboard = IF IsSome(text) THEN text ELSE @,
                                      !.query_editor = exit_visual_mode(@)])
          [] name = "DeleteConnection" ->
                IF pane = "DatabaseBrowser" THEN delete_connection(a, env) ELSE Ok(a)
          [] name = "OpenConnectionManager" -> Ok([a EXCEPT !.connection_manager = cm_show(@)])
          [] name = "CloseConnectionManager" -> Ok([a EXCEPT !.connection_manager = cm_hide(@)])
          [] name = "ConnectionManagerAction" ->
                handle_connection_manager_action(a, command.ch, env)
          [] name = "StartSearch" ->
                IF pane = "DatabaseBrowser"
                THEN Ok([a EXCEPT !.database_browser = enter_search_mode(@)]) ELSE Ok(a)
          [] name = "DiscardChanges" ->
                IF pane /= "Results" THEN Ok(a)
                ELSE IF r.active_tab = "Schema"
                THEN Ok([a EXCEPT !.results_viewer = discard_schema_changes(@),
                                  !.vim_state = enter_normal_mode(@)])
                ELSE Ok([a EXCEPT !.results_viewer = discard_all_changes(@),
                                  !.vim_state = enter_normal_mode(@)])
          [] name = "RefreshData" ->
                IF pane = "Results" THEN refresh_current_table(a, env)
                ELSE IF pane = "DatabaseBrowser" /\ HasActiveConnection(a)
                THEN IF env.fail = "list_tables" THEN Err(a)
                     ELSE Ok([a EXCEPT !.database_browser = set_tables(@, DbTableList)])
                ELSE Ok(a)
          [] OTHER -> Ok(a)

\* ---------------------------------------------------------------- App::handle_key_event

\* The keys under the connection-manager overlay (app.rs 82-154).
connection_manager_key(a, key, env) ==
    LET m == a.connection_manager
        form == IsFormMode(m)
        list == m.mode = <<"List">>
    IN  CASE key.code = "Esc" ->
                IF form
                THEN Ok([a EXCEPT !.connection_manager.mode = <<"List">>,
                                  !.connection_manager.test_result = None])
                ELSE Ok([a EXCEPT !.connection_manager = cm_hide(@)])
          [] key.code = "Enter" ->
                IF list THEN handle_connection_manager_action(a, "\n", env) ELSE Ok(a)
          [] key.code = "Char" /\ ~key.ctrl ->
                IF list THEN handle_connection_manager_action(a, key.ch, env)
                ELSE IF key.ch = " " /\ m.form.active_field = "Type"
                THEN Ok([a EXCEPT !.connection_manager = cycle_db_type(@)])
                ELSE Ok([a EXCEPT !.connection_manager = cm_insert_char(@, key.ch)])
          [] key.code = "Backspace" ->
                IF form THEN Ok([a EXCEPT !.connection_manager = cm_delete_char(@)]) ELSE Ok(a)
          [] key.code = "Tab" ->
                IF form THEN Ok([a EXCEPT !.connection_manager = next_field(@)]) ELSE Ok(a)
          [] key.code = "BackTab" ->
                IF form THEN Ok([a EXCEPT !.connection_manager = prev_field(@)]) ELSE Ok(a)
          [] (key.code = "Up" \/ (IsChar(key, "k") /\ key.ctrl)) /\ list ->
                Ok([a EXCEPT !.connection_manager = move_list_up(@)])
          [] (key.code = "Down" \/ (IsChar(key, "j") /\ key.ctrl)) /\ list ->
                Ok([a EXCEPT !.connection_manager =
                        move_list_down(@, Len(a.config.connections))])
          [] IsChar(key, "t") /\ key.ctrl /\ ~list ->
                IF form THEN test_connection(a, get_connection_string(m), m.form.db_type, env)
                ELSE Ok(a)
          [] IsChar(key, "s") /\ key.ctrl /\ ~list ->
                IF form THEN save_connection_from_form(a, env) ELSE Ok(a)
          [] OTHER -> Ok(a)

\* The keys of search mode with Enter typed into nothing instead of ending the search
search_mode_key_ignoring_enter(a, key) ==
    CASE key.code = "Esc" -> [a EXCEPT !.database_browser = exit_search_mode(@)]
      [] key.code = "Backspace" -> [a EXCEPT !.database_browser = search_backspace(@)]
      [] IsChar(key, "j") \/ key.code = "Down" ->
            [a EXCEPT !.database_browser = browser_move_down(@)]
      [] IsChar(key, "k") \/ key.code = "Up" ->
            [a EXCEPT !.database_browser = browser_move_up(@)]
      [] key.code = "Char" /\ ~key.ctrl /\ key.ch \notin {"j", "k"} ->
            [a EXCEPT !.database_browser = search_insert_char(@, key.ch)]
      [] OTHER -> a

\* The keys of the browser's search mode (app.rs 157-187).
search_mode_key(a, key) ==
    CASE key.code \in {"Esc", "Enter"} -> [a EXCEPT !.database_browser = exit_search_mode(@)]
      [] key.code = "Backspace" -> [a EXCEPT !.database_browser = search_backspace(@)]
      [] IsChar(key, "j") \/ key.code = "Down" ->
            [a EXCEPT !.database_browser = browser_move_down(@)]
      [] IsChar(key, "k") \/ key.code = "Up" ->
            [a EXCEPT !.database_browser = browser_move_up(@)]
      [] key.code = "Char" /\ ~key.ctrl /\ key.ch \notin {"j", "k"} ->
            [a EXCEPT !.database_browser = search_insert_char(@, key.ch)]
      [] OTHER -> a

\* Esc in the browser (app.rs 190-202); reached only when one of the two returns is taken.
browser_escape_key(a) ==
    IF Len(a.database_browser.search_query) > 0
    THEN Ok([a EXCEPT !.database_browser = clear_search(@)])
    ELSE go_back_to_database_list(a)

\* The tab keys also counted as digits of a repeat count
tab_switch_key_counting(a, key) ==
    [a EXCEPT !.results_viewer.active_tab = CASE key.ch = "1" -> "Data"
                                              [] key.ch = "2" -> "Schema"
                                              [] key.ch = "3" -> "Indexes",
              !.vim_state = set_count(@, to_digit(key.ch))]

\* The tab keys of the Results pane (app.rs 205-221).
tab_switch_key(a, key) ==
    CASE key.ch = "1" -> [a EXCEPT !.results_viewer = switch_to_data_tab(@)]
      [] key.ch = "2" -> [a EXCEPT !.results_viewer = switch_to_schema_tab(@)]
      [] key.ch = "3" -> [a EXCEPT !.results_viewer = switch_to_indexes_tab(@)]

\* Ctrl+D (app.rs 224-233).
discard_key(a) ==
    [a EXCEPT !.results_viewer = IF @.active_tab = "Schema" THEN discard_schema_changes(@)
                                 ELSE discard_all_changes(@),
              !.vim_state = enter_normal_mode(@)]

\* The keys of schema edit and schema insert mode (app.rs 236-275).
schema_edit_key(a, key, env) ==
    CASE key.code = "Esc" ->
            IF a.results_viewer.schema_edit_mode
            THEN Ok([a EXCEPT !.results_viewer = exit_schema_edit_mode(@)])
            ELSE Ok([a EXCEPT !.results_viewer = exit_schema_insert_mode(@)])
      [] key.code = "Left" \/ IsChar(key, "h") ->
            Ok([a EXCEPT !.results_viewer = schema_move_column_left(@)])
      [] key.code = "Right" \/ IsChar(key, "l") ->
            Ok([a EXCEPT !.results_viewer = schema_move_column_right(@)])
      [] IsChar(key, "s") /\ key.ctrl ->
            IF a.results_viewer.schema_insert_mode THEN save_schema_insert_column(a, env)
            ELSE save_schema_edits(a, env)
      [] key.code = "Char" /\ ~key.ctrl /\ key.ch \notin {"h", "l"} ->
            Ok([a EXCEPT !.results_viewer = schema_insert_char(@, key.ch)])
      [] key.code = "Backspace" -> Ok([a EXCEPT !.results_viewer = schema_backspace(@)])
      [] OTHER -> Ok(a)

\* The modal path (app.rs 278-281).
vim_key(a, key, env) ==
    LET out == handle_key(a.vim_state, key)
        a1 == [a EXCEPT !.vim_state = out.vim]
    IN  IF IsSome(out.cmd) THEN execute_vim_command(a1, Unwrap(out.cmd), env) ELSE Ok(a1)

\* Branch of a dispatcher that does not look at the connection manager
Branch_overlooking_manager(a, key) ==
    IF a.active_pane = "DatabaseBrowser" /\ a.database_browser.search_mode THEN "Search"
    ELSE "Vim"

\* Branch of a dispatcher whose tab keys do not look at the sub-mode flags
Branch_switching_while_editing(a, key) ==
    LET r == a.results_viewer
    IN  IF a.connection_manager.visible THEN "ConnectionManager"
        ELSE IF a.active_pane = "DatabaseBrowser" /\ a.database_browser.search_mode
        THEN "Search"
        ELSE IF key.code = "Esc" /\ a.active_pane = "DatabaseBrowser"
                /\ (Len(a.database_browser.search_query) > 0
                    \/ a.database_browser.viewing_tables)
        THEN "BrowserEscape"
        ELSE IF a.active_pane = "Results"
                /\ key.code = "Char" /\ key.ch \in {"1", "2", "3"} /\ ~key.ctrl
        THEN "TabSwitch"
        ELSE IF IsChar(key, "d") /\ key.ctrl /\ a.active_pane = "Results" /\ has_any_changes(r)
        THEN "Discard"
        ELSE IF a.active_pane = "Results" /\ r.active_tab = "Schema"
                /\ (r.schema_edit_mode \/ r.schema_insert_mode)
        THEN "SchemaEdit"
        ELSE "Vim"

\* Which part of handle_key_event a key reaches in a state.
Branch(a, key) ==
    LET r == a.results_viewer
    IN  IF a.connection_manager.visible THEN "ConnectionManager"
        ELSE IF a.active_pane = "DatabaseBrowser" /\ a.database_browser.search_mode
        THEN "Search"
        ELSE IF key.code = "Esc" /\ a.active_pane = "DatabaseBrowser"
                /\ (Len(a.database_browser.search_query) > 0
                    \/ a.database_browser.viewing_tables)
        THEN "BrowserEscape"
        ELSE IF a.active_pane = "Results" /\ ~r.edit_mode /\ ~r.insert_mode
                /\ ~r.schema_edit_mode /\ ~r.schema_insert_mode
                /\ key.code = "Char" /\ key.ch \in {"1", "2", "3"} /\ ~key.ctrl
        THEN "TabSwitch"
        ELSE IF IsChar(key, "d") /\ key.ctrl /\ a.active_pane = "Results" /\ has_any_changes(r)
        THEN "Discard"
        ELSE IF a.active_pane = "Results" /\ r.active_tab = "Schema"
                /\ (r.schema_edit_mode \/ r.schema_insert_mode)
        THEN "SchemaEdit"
        ELSE "Vim"

handle_key_event(a, key, env) ==
    LET b == Branch(a, key)
    IN  CASE b = "ConnectionManager" -> connection_manager_key(a, key, env)
          [] b = "Search" -> Ok(search_mode_key(a, key))
          [] b = "BrowserEscape" -> browser_escape_key(a)
          [] b = "TabSwitch" -> Ok(tab_switch_key(a, key))
          [] b = "Discard" -> Ok(discard_key(a))
          [] b = "SchemaEdit" -> schema_edit_key(a, key, env)
          [] b = "Vim" -> vim_key(a, key, env)

\* ---------------------------------------------------------------- the running application

VARIABLES should_quit, vim_state, active_pane, database_browser, query_editor,
          results_viewer, connection_manager, config, connections, next_connection_id,
          clipboard

vars == <<should_quit, vim_state, active_pane, database_browser, query_editor,
          results_viewer, connection_manager, config, connections, next_connection_id,
          clipboard>>

\* The App struct in the current state.
App ==
    [should_quit |-> should_quit, vim_state |-> vim_state, active_pane |-> active_pane,
     database_browser |-> database_browser, query_editor |-> query_editor,
     results_viewer |-> results_viewer, connection_manager |-> connection_manager,
     config |-> config, connections |-> connections,
     next_connection_id |-> next_connection_id, clipboard |-> clipboard]

\* The App struct is what a handler left behind.
Becomes(a) ==
    /\ should_quit' = a.should_quit
    /\ vim_state' = a.vim_state
    /\ active_pane' = a.active_pane
    /\ database_browser' = a.database_browser
    /\ query_editor' = a.query_editor
    /\ results_viewer' = a.results_viewer
    /\ connection_manager' = a.connection_manager
    /\ config' = a.config
    /\ connections' = a.connections
    /\ next_connection_id' = a.next_connection_id
    /\ clipboard' = a.clipboard

load_saved_connections(a, env) ==
    LET open[i \in 0..Len(a.config.connections)] ==
            IF i = 0 THEN a
            ELSE open_database(open[i - 1], a.config.connections[i].connection_string,
                               DbTypeOf(a.config.connections[i].db_type), env).app
    IN  open[Len(a.config.connections)]

\* App::new with the configuration file's content
App_new(cfg, env) ==
    load_saved_connections(
        update_focus(
            [should_quit |-> FALSE, vim_state |-> VimState_new,
             active_pane |-> "DatabaseBrowser", database_browser |-> DatabaseBrowser_new,
             query_editor |-> QueryEditor_new, results_viewer |-> ResultsViewer_new,
             connection_manager |-> ConnectionManager_new, config |-> cfg,
             connections |-> {}, next_connection_id |-> 0, clipboard |-> None]),
        env)

\* The configuration files the explored runs start from: none saved, or the one
\* SQLite file saved under its file name.
SavedConfigs ==
    {[connections |-> <<>>],
     [connections |-> <<ConnectionConfig(DbPath, DbPath, "sqlite", None, None, None, None,
                                         None)>>]}

StartEnvs == {EnvOk, [EnvOk EXCEPT !.fail = "connect"]}

Init ==
    \E cfg \in SavedConfigs, env \in StartEnvs :
        LET a == App_new(cfg, env)
        IN  /\ should_quit = a.should_quit
            /\ vim_state = a.vim_state
            /\ active_pane = a.active_pane
            /\ database_browser = a.database_browser
            /\ query_editor = a.query_editor
            /\ results_viewer = a.results_viewer
            /\ connection_manager = a.connection_manager
            /\ config = a.config
            /\ connections = a.connections
            /\ next_connection_id = a.next_connection_id
            /\ clipboard = a.clipboard

\* ---------------------------------------------------------------- the keys pressed

\* Characters typed into the command line, the editor and the browser's search box.
CommandChars == {"z"}
TextChars == {"a"}
SearchChars == {"t"}
\* Longest search text typed.
MaxSearchLen == 1
\* Longest text in an edit buffer of the Results pane.
MaxEditLen == 2
\* Rightmost schema column the column pointer is moved to while editing.
MaxSchemaColumn == 1
\* Longest text typed into a field of the connection form.
MaxFormLen == 1

\* The keys of the runs that move between the panes and the modes.
Keys ==
    {KeyChar(c) : c \in {"h", "j", "k", "l", "i", "a"}}
    \cup {KeyNamed(n) : n \in {"Esc", "Enter", "Tab", "BackTab"}}
    \cup {KeyCtrl("r")}

\* The tab keys of the Results pane.
TabKeys == {KeyChar("1"), KeyChar("2")}

\* The keys of the runs that type repeat counts.
ModalKeys ==
    {KeyChar(c) : c \in {"0", "1", "2", "3"}}
    \cup {KeyChar(c) : c \in {"h", "j", "k", "l", "g", ":", "/", "i", "v", "z"}}
    \cup {KeyNamed(n) : n \in {"Esc", "Enter", "Backspace"}}

\* The typist stays within the bounds: text is typed only where it is text, and no
\* further than the longest text; a digit is typed only while the count stays small;
\* the schema tab is left only once its changes are saved or discarded; the connection
\* form is filled in for an SQLite file.
Typable(key) ==
    LET b == Branch(App, key)
        mode == vim_state.mode
        ischar == key.code = "Char"
    IN  CASE b = "Search" ->
                ischar /\ ~key.ctrl /\ key.ch \notin {"j", "k"}
                    => key.ch \in SearchChars
                       /\ Len(database_browser.search_query) < MaxSearchLen
          [] b = "Vim" /\ mode = "Command" ->
                ischar => key.ch \in CommandChars /\ Len(vim_state.command_buffer) < MaxCmdLen
          [] b = "Vim" /\ mode = "Insert" ->
                /\ ischar => key.ch \in TextChars
                /\ ischar /\ active_pane = "QueryEditor"
                      => LineLen(query_editor, query_editor.cursor_line) < MaxLineLen
                /\ ischar /\ active_pane = "Results"
                      => Len(results_viewer.edit_buffer) < MaxEditLen
                /\ key.code = "Enter" => Len(query_editor.content) < MaxLines
          [] b = "ConnectionManager" ->
                ischar /\ ~key.ctrl /\ IsFormMode(connection_manager)
                    => /\ key.ch \in TextChars
                       /\ connection_manager.form.active_field \in {"Name", "ConnectionString"}
                       /\ Len(cm_insert_char(connection_manager, key.ch).form.name) <= MaxFormLen
                       /\ Len(cm_insert_char(connection_manager, key.ch).form.connection_string)
                            <= MaxFormLen
          [] b = "TabSwitch" ->
                results_viewer.active_tab = "Schema"
                    => /\ MapIsEmpty(results_viewer.schema_modified_cells)
                       /\ MapIsEmpty(results_viewer.schema_insert_row)
          [] b = "SchemaEdit" ->
                /\ ischar /\ ~key.ctrl /\ key.ch \notin {"h", "l"}
                      => key.ch \in TextChars
                         /\ Len(results_viewer.schema_edit_buffer) < MaxEditLen
                /\ key.code = "Right" \/ IsChar(key, "l")
                      => results_viewer.schema_selected_column < MaxSchemaColumn
          [] b = "Vim" /\ mode = "Normal" ->
                ischar /\ ~key.ctrl /\ is_ascii_digit(key.ch)
                       /\ ~(key.ch = "0" /\ IsNone(vim_state.count))
                    => set_count(vim_state, to_digit(key.ch)).count[1] <= MaxCount
          [] OTHER -> TRUE

\* Keys whose handling can reach the database, and what the database then does.
DbKeys == {KeyNamed("Enter"), KeyCtrl("r")}
DbEnvs ==
    {[EnvOk EXCEPT !.result = QueryResult_new(<<"n">>, << << <<"7">> >> >>)],
     [EnvOk EXCEPT !.fail = "query"]}
EnvsFor(key) == IF key \in DbKeys THEN DbEnvs ELSE {EnvOk}

\* ---------------------------------------------------------------- one key event

SearchKey(key) ==
    /\ Branch(App, key) = "Search"
    /\ Typable(key)
    /\ Becomes(search_mode_key(App, key))

BrowserEscapeKey(key) ==
    /\ Branch(App, key) = "BrowserEscape"
    /\ Becomes(browser_escape_key(App).app)

TabSwitchKey(key) ==
    /\ Branch(App, key) = "TabSwitch"
    /\ Typable(key)
    /\ Becomes(tab_switch_key(App, key))

VimKey(key, env) ==
    /\ Branch(App, key) = "Vim"
    /\ Typable(key)
    /\ Becomes(vim_key(App, key, env).app)

Next ==
    \/ \E key \in Keys :
          \/ BrowserEscapeKey(key)
          \/ \E env \in EnvsFor(key) : VimKey(key, env)
    \/ \E key \in TabKeys : TabSwitchKey(key)

Spec == Init /\ [][Next]_vars

ModalNext ==
    \E key \in ModalKeys :
        \/ SearchKey(key)
        \/ BrowserEscapeKey(key)
        \/ TabSwitchKey(key)
        \/ \E env \in EnvsFor(key) : VimKey(key, env)

ModalSpec == Init /\ [][ModalNext]_vars

\* ---------------------------------------------------------------- editing in the Results pane

\* The keys of the runs that edit cells, rows and schema columns.
EditKeys ==
    {KeyChar(c) : c \in {"e", "a", "1", "2", "3"}}
    \cup {KeyCtrl(c) : c \in {"n", "s", "d"}}
    \cup {KeyNamed(n) : n \in {"Esc", "Enter", "Left", "Right"}}

\* What the database does for a key of an editing run.
EditEnvs(key) ==
    IF key = KeyCtrl("s")
    THEN {EnvOk, [EnvOk EXCEPT !.fail = "query"], [EnvOk EXCEPT !.fail = "reload"]}
    ELSE IF key = KeyNamed("Enter") THEN {EnvOk, [EnvOk EXCEPT !.fail = "query"]}
    ELSE {EnvOk}

DiscardKey(key) ==
    /\ Branch(App, key) = "Discard"
    /\ Becomes(discard_key(App))

SchemaEditKey(key, env) ==
    /\ Branch(App, key) = "SchemaEdit"
    /\ Typable(key)
    /\ Becomes(schema_edit_key(App, key, env).app)

EditNext ==
    \E key \in EditKeys :
        \/ BrowserEscapeKey(key)
        \/ TabSwitchKey(key)
        \/ DiscardKey(key)
        \/ \E env \in EditEnvs(key) : SchemaEditKey(key, env)
        \/ \E env \in EditEnvs(key) : VimKey(key, env)

EditSpec == Init /\ [][EditNext]_vars

\* ---------------------------------------------------------------- the connection manager

\* The keys of the runs that use the connection manager.
ManagerKeys ==
    {KeyChar(c) : c \in {"C", "n", "e", "d", "a"}}
    \cup {KeyCtrl(c) : c \in {"s"}}
    \cup {KeyNamed(n) : n \in {"Esc", "Enter", "Tab", "Down"}}

ManagerEnvs(key) ==
    IF key \in {KeyNamed("Enter"), KeyCtrl("s"), KeyChar("d")}
    THEN {EnvOk, [EnvOk EXCEPT !.fail = "connect"], [EnvOk EXCEPT !.fail = "save"]}
    ELSE {EnvOk}

ConnectionManagerKey(key, env) ==
    /\ Branch(App, key) = "ConnectionManager"
    /\ Typable(key)
    /\ Becomes(connection_manager_key(App, key, env).app)

\* The keys pressed while the connection manager is hidden.
OpenerKeys == {KeyChar("C")} \cup {KeyNamed(n) : n \in {"Esc", "Enter", "Tab"}}

ManagerNext ==
    \/ \E key \in ManagerKeys :
          \E env \in ManagerEnvs(key) : ConnectionManagerKey(key, env)
    \/ \E key \in OpenerKeys :
          \/ BrowserEscapeKey(key)
          \/ \E env \in ManagerEnvs(key) : VimKey(key, env)

ManagerSpec == Init /\ [][ManagerNext]_vars

\* ---------------------------------------------------------------- counted motions in the editor

\* Longest first line of the editor's text, and largest count typed.
LongestLine == 10
MaxTypedCount == 23

\* The lines after the first: none, an empty one, a short one, two.
FollowingLines ==
    {<<>>, << <<>> >>, << <<"b", "b", "b">> >>, << <<"b">>, <<"c", "c">> >>}

\* The Editor focused in Normal mode with the cursor at the start of a text.
EditorInit ==
    \E len \in 0..LongestLine, rest \in FollowingLines :
        LET a == next_pane(App_new([connections |-> <<>>], EnvOk))
            b == [a EXCEPT !.query_editor.content = <<[i \in 1..len |-> "a"]>> \o rest]
        IN  /\ should_quit = b.should_quit
            /\ vim_state = b.vim_state
            /\ active_pane = b.active_pane
            /\ database_browser = b.database_browser
            /\ query_editor = b.query_editor
            /\ results_viewer = b.results_viewer
            /\ connection_manager = b.connection_manager
            /\ config = b.config
            /\ connections = b.connections
            /\ next_connection_id = b.next_connection_id
            /\ clipboard = b.clipboard

EditorKeys ==
    {KeyChar(c) : c \in {"2", "3", "l", "h", "j"}} \cup {KeyNamed("Esc")}

\* A key of a counted motion: digits are typed while the count stays within the
\* largest count.
CountedKey(key) ==
    /\ Branch(App, key) = "Vim"
    /\ IsSome(handle_key(vim_state, key).vim.count)
          => handle_key(vim_state, key).vim.count[1] <= MaxTypedCount
    /\ Becomes(vim_key(App, key, EnvOk).app)

EditorNext == \E key \in EditorKeys : CountedKey(key)

EditorSpec == EditorInit /\ [][EditorNext]_vars

\* ---------------------------------------------------------------- the state machine alone

\* The keys handed to VimState::handle_key when it is driven on its own.
VimKeys ==
    {KeyChar(Digits[i]) : i \in 1..10}
    \cup {KeyChar(c) : c \in {"h", "j", "k", "l", "g", ":", "/", "i", "v", "z"}}
    \cup {KeyNamed(n) : n \in {"Left", "Down", "Up", "Right", "Esc", "Enter", "Backspace"}}

\* VimState::handle_key on the application's vim_state, the command it returns dropped.
HandleKey(key) ==
    /\ vim_state.mode = "Command" /\ key.code = "Char"
          => key.ch \in CommandChars /\ Len(vim_state.command_buffer) < MaxCmdLen
    /\ vim_state.mode = "Normal" /\ key.code = "Char" /\ is_ascii_digit(key.ch)
                                /\ ~(key.ch = "0" /\ IsNone(vim_state.count))
          => set_count(vim_state, to_digit(key.ch)).count[1] <= MaxCount
    /\ vim_state' = handle_key(vim_state, key).vim
    /\ UNCHANGED <<should_quit, active_pane, database_browser, query_editor, results_viewer,
                   connection_manager, config, connections, next_connection_id, clipboard>>

VimNext == \E key \in VimKeys : HandleKey(key)

VimSpec == Init /\ [][VimNext]_vars

\* ---------------------------------------------------------------- properties

\* Longest digit run and largest repeat count the properties try.
MaxDigits == 2
MaxMove == 4

MotionKeys ==
    {KeyChar(c) : c \in {"h", "j", "k", "l"}}
    \cup {KeyNamed(n) : n \in {"Left", "Down", "Up", "Right"}}

\* The Move command a motion key stands for.
MotionOf(key) ==
    CASE IsChar(key, "h") \/ key.code = "Left" -> "MoveLeft"
      [] IsChar(key, "j") \/ key.code = "Down" -> "MoveDown"
      [] IsChar(key, "k") \/ key.code = "Up" -> "MoveUp"
      [] IsChar(key, "l") \/ key.code = "Right" -> "MoveRight"

\* C1 (as claimed): exactly one of the four modes is active and the command buffer
\* is empty in every state whose mode is Normal, Insert or Visual.
C1_BufferEmptyOutsideCommand ==
    /\ vim_state.mode \in VimMode
    /\ vim_state.mode /= "Command" => vim_state.command_buffer = <<>>

\* C1 (amended): exactly one of the four modes is active; the command buffer is
\* empty in Insert and Visual mode, and in Normal mode it is empty or holds exactly
\* the pending prefix key g.
C1_BufferHoldsOnlyPrefixOutsideCommand ==
    /\ vim_state.mode \in VimMode
    /\ vim_state.mode \in {"Insert", "Visual"} => vim_state.command_buffer = <<>>
    /\ vim_state.mode = "Normal" => vim_state.command_buffer \in {<<>>, <<"g">>}

C1_PrefixPending == vim_state.mode = "Normal" /\ vim_state.command_buffer = <<"g">>

\* C2: exactly one of the three panes is focused, and it is the active pane.
Focused ==
    {p \in {"DatabaseBrowser", "QueryEditor", "Results"} :
        CASE p = "DatabaseBrowser" -> database_browser.focused
          [] p = "QueryEditor" -> query_editor.focused
          [] p = "Results" -> results_viewer.focused}

C2_OnePaneFocused == Focused = {active_pane}

\* A query was run from the editor and the Results pane took the focus.
C2_FocusMovedByQuery ==
    /\ active_pane = "Results"
    /\ results_viewer.focused
    /\ IsSome(results_viewer.result)
    /\ Unwrap(results_viewer.result).columns = <<"n">>

\* C3: from Normal mode with no pending count, a run of digits 1..9 emits nothing
\* and the motion key after it emits its Move command with the decimal value of
\* the run as count; with no digits the count is 1.
DigitRuns == UNION {[1..n -> 1..9] : n \in 0..MaxDigits}

RECURSIVE DecimalValue(_)
DecimalValue(ds) ==
    IF Len(ds) = 0 THEN 0 ELSE DecimalValue(SubSeq(ds, 1, Len(ds) - 1)) * 10 + ds[Len(ds)]

\* The VimState after the digits ds were pressed, and whether no key emitted a command.
TypeDigits(v, ds) ==
    LET f[i \in 0..Len(ds)] ==
            IF i = 0 THEN [vim |-> v, silent |-> TRUE]
            ELSE LET out == handle_key(f[i - 1].vim, KeyChar(Digits[ds[i] + 1]))
                 IN  [vim |-> out.vim, silent |-> f[i - 1].silent /\ IsNone(out.cmd)]
    IN  f[Len(ds)]

C3_CountIsDecimalValue ==
    vim_state.mode = "Normal" /\ IsNone(vim_state.count) =>
        \A ds \in DigitRuns, m \in MotionKeys :
            LET typed == TypeDigits(vim_state, ds)
            IN  /\ typed.silent
                /\ handle_key(typed.vim, m).cmd =
                       Some(MoveCmd(MotionOf(m), IF Len(ds) = 0 THEN 1 ELSE DecimalValue(ds)))

\* The digits 1 2 were typed and the next motion carries twelve.
C3_TwelvePending ==
    /\ vim_state.mode = "Normal"
    /\ vim_state.count = Some(12)
    /\ handle_key(vim_state, KeyChar("j")).cmd = Some(MoveCmd("MoveDown", 12))

\* C4: a Move command with count n leaves the application as n Move commands of
\* the same direction with count 1 leave it, in every pane and tab.
C4_MoveRepeatsSingleStep ==
    \A name \in MoveNames, n \in 1..MaxMove :
        execute_move(App, name, n) = Times(LAMBDA x : execute_move(x, name, 1), App, n)

\* The Results pane shows the data tab with the second of three rows selected, so a
\* MoveDown with count 2 stops on the last row.
C4_JumpPastLastRow ==
    /\ active_pane = "Results"
    /\ results_viewer.active_tab = "Data"
    /\ results_viewer.table_state = Some(1)
    /\ IsSome(results_viewer.result)
    /\ Len(Unwrap(results_viewer.result).rows) = 3
    /\ execute_move(App, "MoveDown", 2).results_viewer.table_state = Some(2)

\* C5: a Normal-mode motion key consumes the pending count: after it the count is
\* absent, and the same motion key pressed again carries count 1.
C5_MotionConsumesCount ==
    vim_state.mode = "Normal" =>
        \A m \in MotionKeys :
            LET after == handle_key(vim_state, m).vim
            IN  /\ IsNone(after.count)
                /\ handle_key(after, m).cmd = Some(MoveCmd(MotionOf(m), 1))

\* C6: the pending count is absent in Insert, Visual and Command mode, and right
\* after any key that brings the mode back to Normal.
C6_CountClearedOnModeChange ==
    /\ vim_state.mode /= "Normal" => IsNone(vim_state.count)
    /\ vim_state.mode /= "Normal" =>
          \A key \in ModalKeys :
              LET after == handle_key(vim_state, key).vim
              IN  after.mode = "Normal" => IsNone(after.count)

\* C7: in Normal mode the key 0 emits GotoLineStart and leaves the count absent
\* when no count is pending, and otherwise emits nothing and multiplies the count
\* by ten; a pending count is at least 1.
C7_ZeroExtendsPendingCount ==
    /\ IsSome(vim_state.count) => Unwrap(vim_state.count) >= 1
    /\ vim_state.mode = "Normal" =>
          LET out == handle_key(vim_state, KeyChar("0"))
          IN  IF IsNone(vim_state.count)
              THEN out.cmd = Some(Cmd("GotoLineStart")) /\ IsNone(out.vim.count)
              ELSE IsNone(out.cmd) /\ out.vim.count = Some(Unwrap(vim_state.count) * 10)

\* A count is pending that the key 0 extended.
C7_TenPending == vim_state.mode = "Normal" /\ vim_state.count = Some(10)

\* C8: in Normal mode with no prefix pending, g followed by a key other than g does
\* not emit GotoTop and, when the mode is still Normal, leaves the prefix buffer
\* empty, so that one further g does not emit GotoTop either; g g emits GotoTop and
\* leaves the buffer empty.
C8_AbandonedPrefixIsDropped ==
    vim_state.mode = "Normal" /\ vim_state.command_buffer = <<>> =>
        LET pending == handle_key(vim_state, KeyChar("g"))
            twice == handle_key(pending.vim, KeyChar("g"))
        IN  /\ IsNone(pending.cmd)
            /\ twice.cmd = Some(Cmd("GotoTop"))
            /\ twice.vim.command_buffer = <<>>
            /\ \A key \in ModalKeys \ {KeyChar("g")} :
                  LET other == handle_key(pending.vim, key)
                  IN  /\ other.cmd /= Some(Cmd("GotoTop"))
                      /\ other.vim.mode = "Normal" =>
                            /\ other.vim.command_buffer = <<>>
                            /\ handle_key(other.vim, KeyChar("g")).cmd /= Some(Cmd("GotoTop"))

\* C9: in Normal mode, g g moves the cursor of the focused pane to the top: the
\* first item of the browser list, line 0 column 0 of the editor, row 0 of the data
\* rows on the data tab and of the schema rows on the schema tab.
C9_GotoTopInEveryPane ==
    /\ vim_state.mode = "Normal"
    /\ vim_state.command_buffer = <<>>
    /\ Branch(App, KeyChar("g")) = "Vim"
    => LET first == handle_key_event(App, KeyChar("g"), EnvOk).app
           a == handle_key_event(first, KeyChar("g"), EnvOk).app
       IN  CASE active_pane = "DatabaseBrowser" -> a.database_browser.list_state = Some(0)
             [] active_pane = "QueryEditor" ->
                   a.query_editor.cursor_line = 0 /\ a.query_editor.cursor_col = 0
             [] active_pane = "Results" /\ results_viewer.active_tab = "Schema" ->
                   a.results_viewer.schema_table_state = Some(0)
             [] active_pane = "Results" /\ results_viewer.active_tab = "Data" ->
                   a.results_viewer.table_state = Some(0)
             [] OTHER -> TRUE

\* C10: in Command mode a character key appends to the buffer and emits nothing;
\* Backspace removes the last character and, when the buffer is then empty, returns
\* to Normal with CancelCommand; Enter emits ExecuteCommand with the buffer and
\* returns to Normal; Esc returns to Normal with CancelCommand; after each return
\* to Normal the buffer is empty.
C10_CommandLineEditing ==
    vim_state.mode = "Command" =>
        LET buffer == vim_state.command_buffer
            back == handle_key(vim_state, KeyNamed("Backspace"))
            enter == handle_key(vim_state, KeyNamed("Enter"))
            esc == handle_key(vim_state, KeyNamed("Esc"))
        IN  /\ \A c \in {"z", ":", "/", "g", "7", " "} :
                  LET typed == handle_key(vim_state, KeyChar(c))
                  IN  /\ IsNone(typed.cmd)
                      /\ typed.vim.mode = "Command"
                      /\ typed.vim.command_buffer = buffer \o <<c>>
            /\ IF Len(buffer) <= 1
               THEN /\ back.cmd = Some(Cmd("CancelCommand"))
                    /\ back.vim.mode = "Normal"
                    /\ back.vim.command_buffer = <<>>
               ELSE /\ IsNone(back.cmd)
                    /\ back.vim.mode = "Command"
                    /\ back.vim.command_buffer = SubSeq(buffer, 1, Len(buffer) - 1)
            /\ enter.cmd = Some(ExecuteCommandCmd(buffer))
            /\ enter.vim.mode = "Normal"
            /\ enter.vim.command_buffer = <<>>
            /\ esc.cmd = Some(Cmd("CancelCommand"))
            /\ esc.vim.mode = "Normal"
            /\ esc.vim.command_buffer = <<>>

\* Two characters are on the command line.
C10_TwoCharactersTyped ==
    vim_state.mode = "Command" /\ vim_state.command_buffer = <<"z", "z">>

\* C11 (as claimed): in Normal mode the key : gives Command mode with the command
\* line ":" and emits EnterCommandMode, and the key / gives Command mode with the
\* command line "/" and emits StartSearch.
C11_ColonSeedsCommandLine ==
    vim_state.mode = "Normal" =>
        LET colon == handle_key(vim_state, KeyChar(":"))
            slash == handle_key(vim_state, KeyChar("/"))
        IN  /\ colon.vim.mode = "Command"
            /\ colon.vim.command_buffer = <<":">>
            /\ colon.cmd = Some(Cmd("EnterCommandMode"))
            /\ slash.vim.mode = "Command"
            /\ slash.vim.command_buffer = <<"/">>
            /\ slash.cmd = Some(Cmd("StartSearch"))

\* C11 (amended): in Normal mode the key : gives Command mode with an empty command
\* line and emits EnterCommandMode, and the key / gives Command mode with the
\* command line "/" and emits StartSearch.
C11_OnlySlashSeedsCommandLine ==
    vim_state.mode = "Normal" =>
        LET colon == handle_key(vim_state, KeyChar(":"))
            slash == handle_key(vim_state, KeyChar("/"))
        IN  /\ colon.vim.mode = "Command"
            /\ colon.vim.command_buffer = <<>>
            /\ colon.cmd = Some(Cmd("EnterCommandMode"))
            /\ slash.vim.mode = "Command"
            /\ slash.vim.command_buffer = <<"/">>
            /\ slash.cmd = Some(Cmd("StartSearch"))

\* The key : was pressed: the mode is Command and nothing is on the command line.
C11_ColonPressed == vim_state.mode = "Command" /\ vim_state.command_buffer = <<>>

\* Esc pressed with the Results pane focused
AfterEsc == handle_key_event(App, KeyNamed("Esc"), EnvOk).app

\* C12: with the Results pane focused on the data tab and the mode Insert, Esc in
\* cell-edit mode gives mode Normal, maps (selected row, selected column) to the
\* edit buffer in the modification map and leaves edit_mode true; Esc in row-insert
\* mode gives mode Normal, maps the selected column to the edit buffer in insert_row
\* and leaves insert_mode true.
C12_EscKeepsEditAndStoresBuffer ==
    /\ active_pane = "Results"
    /\ results_viewer.active_tab = "Data"
    /\ vim_state.mode = "Insert"
    => LET r == results_viewer
           q == AfterEsc.results_viewer
       IN  /\ r.edit_mode =>
                /\ AfterEsc.vim_state.mode = "Normal"
                /\ MapGet(q.modified_cells, <<UnwrapOr(r.table_state, 0), r.selected_column>>)
                        = Some(r.edit_buffer)
                /\ q.edit_mode
           /\ r.insert_mode =>
                /\ AfterEsc.vim_state.mode = "Normal"
                /\ MapGet(q.insert_row, r.selected_column) = Some(r.edit_buffer)
                /\ q.insert_mode

\* Esc has ended the typing of a cell edit in the second column of the data tab: the
\* mode is Normal, the edit remains open, and the typed text is in the map.
C12_CellEditLeftByEsc ==
    /\ active_pane = "Results"
    /\ results_viewer.active_tab = "Data"
    /\ vim_state.mode = "Normal"
    /\ results_viewer.edit_mode
    /\ ~results_viewer.insert_mode
    /\ results_viewer.selected_column = 1
    /\ results_viewer.edit_buffer /= <<>>
    /\ MapGet(results_viewer.modified_cells, <<0, 1>>) = Some(results_viewer.edit_buffer)

\* The keys e, a, b, c and the Right arrow, pressed one after another
KeysOfCellEdit ==
    <<KeyChar("e"), KeyChar("a"), KeyChar("b"), KeyChar("c"), KeyNamed("Right")>>

RECURSIVE PressAll(_, _)
PressAll(a, keys) ==
    IF keys = <<>> THEN a
    ELSE PressAll(handle_key_event(a, Head(keys), EnvOk).app, Tail(keys))

\* A cell edit can be entered and the result shown has a column after the first.
CellEditCanStart ==
    /\ active_pane = "Results"
    /\ results_viewer.active_tab = "Data"
    /\ vim_state.mode = "Normal"
    /\ IsSome(results_viewer.result)
    /\ Len(Unwrap(results_viewer.result).columns) > 1

C14_AtMostOneSubMode ==
    /\ ~(results_viewer.edit_mode /\ results_viewer.insert_mode)
    /\ ~(results_viewer.schema_edit_mode /\ results_viewer.schema_insert_mode)

\* C14, the schema half alone: schema_edit_mode and schema_insert_mode are never
\* both true.
C14_AtMostOneSchemaSubMode ==
    ~(results_viewer.schema_edit_mode /\ results_viewer.schema_insert_mode)

\* C15: edit_mode or insert_mode changes from false to true only with the Results
\* pane focused and the data tab active, schema_edit_mode or schema_insert_mode only
\* with the Results pane focused and the schema tab active; and with another pane
\* focused EnterEditMode and EnterInsertRowMode change no state.
C15_SubModesEnteredOnMatchingTab ==
    /\ [][/\ (\/ ~results_viewer.edit_mode /\ results_viewer.edit_mode'
              \/ ~results_viewer.insert_mode /\ results_viewer.insert_mode')
             => active_pane = "Results" /\ results_viewer.active_tab = "Data"
          /\ (\/ ~results_viewer.schema_edit_mode /\ results_viewer.schema_edit_mode'
              \/ ~results_viewer.schema_insert_mode /\ results_viewer.schema_insert_mode')
             => active_pane = "Results" /\ results_viewer.active_tab = "Schema"]_vars
    /\ [](active_pane /= "Results" =>
            /\ execute_vim_command(App, Cmd("EnterEditMode"), EnvOk).app = App
            /\ execute_vim_command(App, Cmd("EnterInsertRowMode"), EnvOk).app = App)

\* The collaborator calls that can fail during one key event
Failures == {"query", "reload", "connect", "list_tables", "save"}

\* ModalState, the active pane with the focus flags, and the four sub-mode flags of
\* the Results pane
GuardedState(a) ==
    <<a.vim_state.mode, a.vim_state.count, a.vim_state.command_buffer, a.active_pane,
      a.database_browser.focused, a.query_editor.focused, a.results_viewer.focused,
      a.results_viewer.edit_mode, a.results_viewer.insert_mode,
      a.results_viewer.schema_edit_mode, a.results_viewer.schema_insert_mode>>

\* C16: when a collaborator operation fails during a key event, the dispatcher returns
\* the error with ModalState, the active pane, the focus flags and the four Results
\* sub-mode flags as they were immediately before the key.
C16_FailureLeavesModesAsBefore ==
    \A key \in EditKeys, f \in Failures :
        LET res == handle_key_event(App, key, [EnvOk EXCEPT !.fail = f])
        IN  res.err => GuardedState(res.app) = GuardedState(App)

\* Keys of every kind the connection-manager branch distinguishes, and some it ignores
OverlayKeys ==
    {KeyChar(c) : c \in {"a", "C", "d", "e", "i", "j", "k", "n", "t", "v", ":", "/", "1", "2", " "}}
    \cup {KeyCtrl(c) : c \in {"j", "k", "s", "t", "d", "n", "r"}}
    \cup {KeyNamed(n) : n \in {"Esc", "Enter", "Tab", "BackTab", "Backspace", "Up", "Down",
                               "Left", "Right"}}

\* What the connection manager must leave alone: ModalState, the active pane and the
\* focus flags, the search state of the Browser, and the sub-mode flags, edit buffers
\* and modification maps of the Results pane
BehindOverlay(a) ==
    LET r == a.results_viewer
    IN  <<a.vim_state.mode, a.vim_state.count, a.vim_state.command_buffer, a.active_pane,
          a.database_browser.focused, a.query_editor.focused, r.focused,
          a.database_browser.search_mode, a.database_browser.search_query,
          r.edit_mode, r.insert_mode, r.schema_edit_mode, r.schema_insert_mode,
          r.edit_buffer, r.schema_edit_buffer, r.modified_cells, r.insert_row,
          r.schema_modified_cells, r.schema_insert_row>>

\* C17: while the connection manager is visible no key changes ModalState, the active
\* pane or the focus flags, the Browser's search state, or the Results pane's
\* sub-mode flags, edit buffers and modification maps, whatever the collaborators do.
C17_OverlayHandlesEveryKeyAlone ==
    connection_manager.visible =>
        \A key \in OverlayKeys, f \in Failures \cup {"none"} :
            BehindOverlay(handle_key_event(App, key, [EnvOk EXCEPT !.fail = f]).app)
                = BehindOverlay(App)

\* The connection manager was opened over the Results pane showing a table, a
\* connection was added through its form, and the manager is back at its list.
C17_ConnectionAddedOverResults ==
    /\ connection_manager.visible
    /\ connection_manager.mode = <<"List">>
    /\ active_pane = "Results"
    /\ IsSome(results_viewer.result)
    /\ Len(config.connections) = 2

StrOpen == <<"o", "p", "e", "n">>
StrMysql == <<"m", "y", "s", "q", "l">>
StrMariadb == <<"m", "a", "r", "i", "a", "d", "b">>

\* Command texts that name nothing to do: empty or blank, an unknown first word, and
\* open, mysql, mariadb without an argument
IdleCommands ==
    {<<>>, <<" ">>, <<"z">>, <<"z", " ", "q">>, <<"o", "p">>, <<"o", "p", "e", "n", "s">>,
     StrOpen, StrOpen \o <<" ">>, <<" ">> \o StrOpen, StrMysql, StrMysql \o <<" ">>,
     StrMariadb, StrMariadb \o <<" ">>}

\* Paths given to open: the file already open in some states, and another file
OpenedPaths == {DbPath, <<"a">>}

\* C18: ExecuteCommand with an empty text, an unknown first word, or open, mysql or
\* mariadb without an argument returns success and changes nothing; and open without
\* an argument right after a successful open of a path leaves the connection list
\* and the table list as that open left them.
C18_IdleCommandsChangeNothing ==
    \A f \in Failures \cup {"none"} :
        LET env == [EnvOk EXCEPT !.fail = f]
        IN  /\ \A text \in IdleCommands :
                  execute_vim_command(App, ExecuteCommandCmd(text), env) = Ok(App)
            /\ \A path \in OpenedPaths :
                  LET opened == execute_vim_command(
                                    App, ExecuteCommandCmd(StrOpen \o <<" ">> \o path), EnvOk)
                      after == execute_vim_command(opened.app, ExecuteCommandCmd(StrOpen), env)
                  IN  ~opened.err =>
                        /\ ~after.err
                        /\ after.app.database_browser.connections
                              = opened.app.database_browser.connections
                        /\ after.app.connections = opened.app.connections
                        /\ after.app.database_browser.tables = opened.app.database_browser.tables

\* No file is open, `open d` succeeds and adds a connection with its tables, and
\* `open` after it changes nothing.
C18_OpenThenBareOpen ==
    LET opened == execute_vim_command(App, ExecuteCommandCmd(StrOpen \o <<" ">> \o DbPath), EnvOk)
    IN  /\ database_browser.connections = <<>>
        /\ ~opened.err
        /\ Len(opened.app.database_browser.connections) = 1
        /\ opened.app.database_browser.tables = DbTableList
        /\ execute_vim_command(opened.app, ExecuteCommandCmd(StrOpen), EnvOk) = Ok(opened.app)

\* Where n steps right from the start of line `line` end: on that line while n does
\* not exceed its length, at its end if it is the last line, and otherwise the step
\* after the end of the line goes to the start of the next line.
RECURSIVE RightFromStart(_, _, _)
RightFromStart(content, line, n) ==
    LET len == Len(content[line + 1])
    IN  IF n <= len THEN <<line, n>>
        ELSE IF line = Len(content) - 1 THEN <<line, len>>
        ELSE RightFromStart(content, line + 1, n - len - 1)

\* The keys of the digits ds followed by l
CountThenL(ds) == [i \in 1..Len(ds) + 1 |-> IF i <= Len(ds) THEN KeyChar(Digits[ds[i] + 1])
                                            ELSE KeyChar("l")]

\* The Editor is focused in Normal mode with no count and the cursor at column 0.
AtLineStart ==
    /\ active_pane = "QueryEditor"
    /\ vim_state.mode = "Normal"
    /\ IsNone(vim_state.count)
    /\ query_editor.cursor_col = 0

\* C19: with the Editor focused in Normal mode, no count and the cursor at column 0,
\* the digits of n (up to the largest count typed) followed by l leave the cursor on the same line at column
\* min(n, line length); so 2, 3, l on a 10-character line end at column 10.
C19_CountedRightStaysOnLine ==
    AtLineStart =>
        \A ds \in DigitRuns :
            LET e == PressAll(App, CountThenL(ds)).query_editor
            IN  Len(ds) > 0 /\ DecimalValue(ds) <= MaxTypedCount =>
                    /\ e.cursor_line = query_editor.cursor_line
                    /\ e.cursor_col = Min(DecimalValue(ds),
                                          LineLen(query_editor, query_editor.cursor_line))

\* C19 (amended): with the Editor focused in Normal mode, no count and the cursor at
\* column 0, the digits of n (up to the largest count typed) followed by l move the
\* cursor n steps: on the last line
\* of the text it ends at column min(n, line length); on a line that has a line after
\* it, the step after the end of the line goes to column 0 of the next line and the
\* remaining steps go on from there.
C19_CountedRightRunsOntoNextLine ==
    AtLineStart =>
        \A ds \in DigitRuns :
            LET e == PressAll(App, CountThenL(ds)).query_editor
            IN  Len(ds) > 0 /\ DecimalValue(ds) <= MaxTypedCount =>
                    <<e.cursor_line, e.cursor_col>>
                        = RightFromStart(query_editor.content, query_editor.cursor_line,
                                         DecimalValue(ds))

\* The keys 2, 3, l were pressed on a single line of ten characters: the cursor is at
\* column 10.
C19_TwentyThreeRightOnTenCharacters ==
    /\ active_pane = "QueryEditor"
    /\ Len(query_editor.content) = 1
    /\ LineLen(query_editor, 0) = 10
    /\ vim_state.count = Some(23)
    /\ query_editor.cursor_line = 0
    /\ query_editor.cursor_col = 10

\* The commands NextPane and PrevPane applied to an application state
NextPane(a) == execute_vim_command(a, Cmd("NextPane"), EnvOk).app
PrevPane(a) == execute_vim_command(a, Cmd("PrevPane"), EnvOk).app

\* The pane after each pane in the ring
RingAfter ==
    ("DatabaseBrowser" :> "QueryEditor") @@ ("QueryEditor" :> "Results")
        @@ ("Results" :> "DatabaseBrowser")

\* C20: NextPane follows the ring Browser -> Editor -> Results -> Browser and PrevPane
\* follows it in reverse; NextPane then PrevPane, PrevPane then NextPane, three
\* NextPane and three PrevPane each return to the starting pane.
C20_PaneRing ==
    /\ NextPane(App).active_pane = RingAfter[active_pane]
    /\ RingAfter[PrevPane(App).active_pane] = active_pane
    /\ PrevPane(NextPane(App)).active_pane = active_pane
    /\ NextPane(PrevPane(App)).active_pane = active_pane
    /\ NextPane(NextPane(NextPane(App))).active_pane = active_pane
    /\ PrevPane(PrevPane(PrevPane(App))).active_pane = active_pane

\* The Results pane is focused with a table shown: NextPane wraps around to the
\* Browser and PrevPane from the Browser wraps around to the Results pane.
C20_WrapAroundAtResults ==
    /\ active_pane = "Results"
    /\ IsSome(results_viewer.result)
    /\ NextPane(App).active_pane = "DatabaseBrowser"
    /\ NextPane(App).database_browser.focused
    /\ PrevPane(NextPane(App)) = App

\* Ctrl+S pressed where it saves: in the schema sub-modes, or in Normal mode, with
\* the Results pane focused
SaveIsIssued ==
    /\ active_pane = "Results"
    /\ \/ Branch(App, KeyCtrl("s")) = "SchemaEdit"
       \/ Branch(App, KeyCtrl("s")) = "Vim" /\ vim_state.mode = "Normal"

\* The save sends a statement to the database: it fails when the database refuses
\* the statement.
SaveSendsStatement == handle_key_event(App, KeyCtrl("s"), [EnvOk EXCEPT !.fail = "query"]).err

\* C21: after a save (Ctrl+S) that sends its statement and completes without error,
\* the sub-mode that was active (cell edit, row insert, schema edit or schema insert)
\* has its flag false.
C21_SaveEndsSubMode ==
    SaveIsIssued /\ SaveSendsStatement =>
        LET res == handle_key_event(App, KeyCtrl("s"), EnvOk)
            r == results_viewer
            q == res.app.results_viewer
        IN  ~res.err =>
                /\ r.edit_mode /\ ~r.insert_mode => ~q.edit_mode
                /\ r.insert_mode => ~q.insert_mode
                /\ Branch(App, KeyCtrl("s")) = "SchemaEdit" /\ r.schema_edit_mode
                      => ~q.schema_edit_mode
                /\ Branch(App, KeyCtrl("s")) = "SchemaEdit" /\ r.schema_insert_mode
                      => ~q.schema_insert_mode

\* Ctrl+D reaches the discard of handle_key_event.
DiscardApplies == Branch(App, KeyCtrl("d")) = "Discard"

\* C22: Ctrl+D with the Results pane focused and changes pending returns without
\* error whatever the database would answer and leaves the result shown as it is
\* (no statement is sent); afterwards the modification map, the insert-row buffer and
\* the edit buffer of the active tab's axis (schema on the Schema tab, data otherwise)
\* are empty, the flags of that axis are false, and the mode is Normal.
C22_DiscardNeverCommits ==
    DiscardApplies =>
        \A f \in Failures \cup {"none"} :
            LET res == handle_key_event(App, KeyCtrl("d"), [EnvOk EXCEPT !.fail = f])
                q == res.app.results_viewer
            IN  /\ ~res.err
                /\ q.result = results_viewer.result
                /\ res.app.connections = connections
                /\ res.app.vim_state.mode = "Normal"
                /\ IF results_viewer.active_tab = "Schema"
                   THEN /\ MapIsEmpty(q.schema_modified_cells)
                        /\ MapIsEmpty(q.schema_insert_row)
                        /\ q.schema_edit_buffer = <<>>
                        /\ ~q.schema_edit_mode /\ ~q.schema_insert_mode
                   ELSE /\ MapIsEmpty(q.modified_cells)
                        /\ MapIsEmpty(q.insert_row)
                        /\ q.edit_buffer = <<>>
                        /\ ~q.edit_mode /\ ~q.insert_mode

\* A cell edit is open in Insert mode with an edited cell pending and text in the
\* buffer, and Ctrl+D would discard it.
C22_PendingCellEdit ==
    /\ DiscardApplies
    /\ results_viewer.active_tab = "Data"
    /\ vim_state.mode = "Insert"
    /\ results_viewer.edit_mode
    /\ ~MapIsEmpty(results_viewer.modified_cells)
    /\ results_viewer.edit_buffer /= <<>>
    /\ discard_key(App).results_viewer.modified_cells = MapEmpty

\* The keys that move the column pointer in the schema sub-modes
SchemaColumnKeys == {KeyNamed("Left"), KeyNamed("Right"), KeyChar("h"), KeyChar("l")}

\* C23: in schema-insert mode a key that moves the column pointer stores the text of
\* the field being left in schema_insert_row, keeps the fields stored before, and
\* adds or changes no entry of schema_modified_cells.
C23_NewColumnFieldsAreKept ==
    /\ active_pane = "Results"
    /\ results_viewer.active_tab = "Schema"
    /\ results_viewer.schema_insert_mode
    => \A key \in SchemaColumnKeys :
          LET r == results_viewer
              q == handle_key_event(App, key, EnvOk).app.results_viewer
          IN  q.schema_selected_column /= r.schema_selected_column =>
                /\ MapGet(q.schema_insert_row, r.schema_selected_column)
                        = Some(r.schema_edit_buffer)
                /\ \A c \in DOMAIN r.schema_insert_row :
                        c /= r.schema_selected_column
                            => MapGet(q.schema_insert_row, c) = Some(r.schema_insert_row[c])
                /\ q.schema_modified_cells = r.schema_modified_cells

\* The ways into a Results sub-mode: none (viewing), e and a typed character (cell
\* edit), Ctrl+N and a typed character (row insert)
SubModeEntries ==
    {<<>>, <<KeyChar("e"), KeyChar("a")>>, <<KeyCtrl("n"), KeyChar("a")>>}

\* C24: with the Results pane focused and no result set, MoveLeft and MoveRight in
\* viewing, cell-edit and row-insert mode raise no error and leave the selected
\* column, the edit buffer, the modification map and the insert-row buffer unchanged.
C24_ColumnMoveWithoutResult ==
    /\ active_pane = "Results"
    /\ IsNone(results_viewer.result)
    /\ vim_state.mode = "Normal"
    => \A entry \in SubModeEntries, move \in {KeyNamed("Left"), KeyNamed("Right")} :
          LET before == PressAll(App, entry)
              res == handle_key_event(before, move, EnvOk)
              r == before.results_viewer
              q == res.app.results_viewer
          IN  /\ ~res.err
              /\ q.selected_column = r.selected_column
              /\ q.edit_buffer = r.edit_buffer
              /\ q.modified_cells = r.modified_cells
              /\ q.insert_row = r.insert_row

\* A named key pressed together with Ctrl
KeyCtrlNamed(n) == [code |-> n, ch |-> "", ctrl |-> TRUE]

\* Keys without a mapping, by mode: in Normal mode characters like z and q, Esc,
\* Backspace, function and paging keys, and Ctrl with anything but c, e, r, s, n; in
\* Insert mode BackTab, function and paging keys; in Visual mode every character but
\* h, j, k, l, y, d, and Enter, Backspace, Tab, function keys; in Command mode Tab,
\* BackTab, the arrows, function and paging keys.
UnmappedKeys(mode) ==
    CASE mode = "Normal" ->
            {KeyChar(c) : c \in {"z", "q", " ", "H"}}
            \cup {KeyNamed(n) : n \in {"Esc", "Backspace", "F1", "PageUp", "Delete", "Home"}}
            \cup {KeyCtrl(c) : c \in {"z", "x", "d", "h", "g", "1", ":"}}
            \cup {KeyCtrlNamed(n) : n \in {"Enter", "Tab", "Left", "Esc"}}
      [] mode = "Insert" ->
            {KeyNamed(n) : n \in {"BackTab", "F1", "PageUp", "Delete", "Home"}}
            \cup {KeyCtrlNamed(n) : n \in {"F1", "PageDown"}}
      [] mode = "Visual" ->
            {KeyChar(c) : c \in {"z", "i", "v", ":", "g", "1", "x"}}
            \cup {KeyCtrl(c) : c \in {"c", "s"}}
            \cup {KeyNamed(n) : n \in {"Enter", "Backspace", "Tab", "BackTab", "F1", "PageUp"}}
      [] mode = "Command" ->
            {KeyNamed(n) : n \in {"Tab", "BackTab", "Left", "Right", "Up", "Down", "F1",
                                  "Delete"}}
            \cup {KeyCtrlNamed(n) : n \in {"Tab", "F1"}}

\* C25: a key with no mapping in the current mode emits no command and leaves the
\* mode, the pending count and the command/prefix buffer exactly as they were.
C25_UnmappedKeyDoesNothing ==
    \A key \in UnmappedKeys(vim_state.mode) :
        /\ handle_key(vim_state, key).cmd = None
        /\ handle_key(vim_state, key).vim = vim_state

\* A count and the prefix g are pending in Normal mode, and z leaves both.
C25_PendingCountAndPrefix ==
    /\ vim_state.mode = "Normal"
    /\ IsSome(vim_state.count)
    /\ vim_state.command_buffer = <<"g">>
    /\ handle_key(vim_state, KeyChar("z")).vim.command_buffer = <<"g">>
    /\ handle_key(vim_state, KeyChar("z")).vim.count = vim_state.count

\* The command each Ctrl combination of Normal mode stands for
CtrlCommand(c) ==
    CASE c = "c" -> "Quit"
      [] c = "e" -> "ExecuteQueryUnderCursor"
      [] c = "r" -> "ExecuteAllQueries"
      [] c = "s" -> "SaveAllEdits"
      [] c = "n" -> "EnterInsertRowMode"

\* C26: in Normal mode Ctrl+c, Ctrl+e, Ctrl+r, Ctrl+s and Ctrl+n emit Quit,
\* ExecuteQueryUnderCursor, ExecuteAllQueries, SaveAllEdits and EnterInsertRowMode
\* whatever the pending count and prefix buffer hold, and the state machine leaves
\* mode, pending count and prefix buffer unchanged.
C26_CtrlKeysEmitFixedCommands ==
    vim_state.mode = "Normal" =>
        \A c \in {"c", "e", "r", "s", "n"} :
            /\ handle_key(vim_state, KeyCtrl(c)).cmd = Some(Cmd(CtrlCommand(c)))
            /\ handle_key(vim_state, KeyCtrl(c)).vim = vim_state

\* Ctrl+e is pressed while a count and the prefix g are pending.
C26_CtrlWithPendingCountAndPrefix ==
    /\ vim_state.mode = "Normal"
    /\ IsSome(vim_state.count)
    /\ vim_state.command_buffer = <<"g">>
    /\ handle_key(vim_state, KeyCtrl("e")).cmd = Some(Cmd("ExecuteQueryUnderCursor"))

\* ---------------------------------------------------------------- typing in the Editor

\* Most characters typed, and most lines typed, in the runs that edit the text.
MaxTypedChars == 3
MaxTypedLines == 3

StrClear == <<"c", "l", "e", "a", "r">>

\* The Editor focused in Normal mode with an empty text.
TypingInit ==
    LET b == next_pane(App_new([connections |-> <<>>], EnvOk))
    IN  /\ should_quit = b.should_quit
        /\ vim_state = b.vim_state
        /\ active_pane = b.active_pane
        /\ database_browser = b.database_browser
        /\ query_editor = b.query_editor
        /\ results_viewer = b.results_viewer
        /\ connection_manager = b.connection_manager
        /\ config = b.config
        /\ connections = b.connections
        /\ next_connection_id = b.next_connection_id
        /\ clipboard = b.clipboard

\* The keys that edit the text and move in it, by mode; in Command mode the letters of
\* :clear.
TypingKeys(mode) ==
    CASE mode = "Normal" ->
            {KeyChar(c) : c \in {"i", "a", "x", "0", "$", "g", "G", "2", "h", "j", "k", "l", ":"}}
            \cup {KeyNamed(n) : n \in {"Left", "Right", "Up", "Down", "Esc", "Backspace"}}
      [] mode = "Insert" ->
            {KeyChar("a")}
            \cup {KeyNamed(n) : n \in {"Enter", "Backspace", "Esc", "Left", "Right", "Up", "Down"}}
      [] mode = "Command" ->
            {KeyChar(c) : c \in {"c", "l", "e", "a", "r"}}
            \cup {KeyNamed(n) : n \in {"Enter", "Backspace", "Esc"}}
      [] OTHER -> {}

\* A key of the typist: text is typed up to the most characters and the most lines, a
\* count up to the largest count, and in Command mode the word clear letter by letter.
TypingKey(key) ==
    /\ Branch(App, key) = "Vim"
    /\ vim_state.mode = "Insert" /\ key.code = "Char"
          => Len(Flatten(query_editor.content)) < MaxTypedChars
    /\ vim_state.mode = "Insert" /\ key.code = "Enter"
          => Len(query_editor.content) < MaxTypedLines
    /\ vim_state.mode = "Command" /\ key.code = "Char"
          => /\ Len(vim_state.command_buffer) < Len(StrClear)
             /\ Append(vim_state.command_buffer, key.ch)
                    = SubSeq(StrClear, 1, Len(vim_state.command_buffer) + 1)
    /\ IsSome(handle_key(vim_state, key).vim.count)
          => handle_key(vim_state, key).vim.count[1] <= MaxCount
    /\ Becomes(vim_key(App, key, EnvOk).app)

TypingNext == \E key \in TypingKeys(vim_state.mode) : TypingKey(key)

TypingSpec == TypingInit /\ [][TypingNext]_vars

\* The cursor of e is on a line of e and within it, and e has a line.
EditorInBounds(e) ==
    /\ Len(e.content) >= 1
    /\ 0 <= e.cursor_line /\ e.cursor_line < Len(e.content)
    /\ 0 <= e.cursor_col /\ e.cursor_col <= Len(e.content[e.cursor_line + 1])

InsertEntryKeys == {"i", "a", "I", "A", "o", "O"}

\* The directional keys: h, j, k, l and the four arrows
DirectionalKeys ==
    {KeyChar(c) : c \in {"h", "j", "k", "l"}}
    \cup {KeyNamed(n) : n \in {"Left", "Down", "Up", "Right"}}

\* Keys of Insert mode other than Esc
InsertStayKeys ==
    {KeyChar(c) : c \in {"a", "i", "v", ":", "1", "y", "d", " "}}
    \cup {KeyCtrl(c) : c \in {"c", "s"}}
    \cup {KeyNamed(n) : n \in {"Backspace", "Enter", "Tab", "BackTab", "Left", "Right", "Up",
                               "Down", "F1", "Delete"}}

\* No count is pending and the buffer is empty in v.
Cleared(v) == v.count = None /\ v.command_buffer = <<>>

\* C27: in Normal mode each of i, a, I, A, o, O sets mode Insert and emits a command
\* distinct from the other five, and v sets mode Visual; in Visual mode y, d and Esc set
\* mode Normal and emit YankSelection, DeleteSelection and ExitVisualMode while
\* directional keys keep mode Visual; in Insert mode Esc sets mode Normal and emits
\* ExitInsertMode while every other key keeps mode Insert. Each transition leaves the
\* pending count absent and the buffer empty.
C27_ModeTransitions ==
    LET after(key) == handle_key(vim_state, key)
        to(key, mode) == after(key).vim.mode = mode /\ Cleared(after(key).vim)
        emits(key, name) == after(key).cmd = Some(Cmd(name))
    IN  /\ vim_state.mode = "Normal" =>
            /\ \A c \in InsertEntryKeys : to(KeyChar(c), "Insert") /\ IsSome(after(KeyChar(c)).cmd)
            /\ \A c, d \in InsertEntryKeys :
                   c /= d => after(KeyChar(c)).cmd /= after(KeyChar(d)).cmd
            /\ to(KeyChar("v"), "Visual")
        /\ vim_state.mode = "Visual" =>
            /\ to(KeyChar("y"), "Normal") /\ emits(KeyChar("y"), "YankSelection")
            /\ to(KeyChar("d"), "Normal") /\ emits(KeyChar("d"), "DeleteSelection")
            /\ to(KeyNamed("Esc"), "Normal") /\ emits(KeyNamed("Esc"), "ExitVisualMode")
            /\ \A key \in DirectionalKeys : to(key, "Visual")
        /\ vim_state.mode = "Insert" =>
            /\ to(KeyNamed("Esc"), "Normal") /\ emits(KeyNamed("Esc"), "ExitInsertMode")
            /\ \A key \in InsertStayKeys : to(key, "Insert")

\* v is pressed in Normal mode while a count and the prefix g are pending, and Visual
\* mode starts without them.
C27_VisualEnteredWithPendingCount ==
    /\ vim_state.mode = "Normal"
    /\ IsSome(vim_state.count)
    /\ vim_state.command_buffer = <<"g">>
    /\ handle_key(vim_state, KeyChar("v")).vim.mode = "Visual"
    /\ Cleared(handle_key(vim_state, KeyChar("v")).vim)

\* The Editor is focused in Normal mode with the cursor on a character of its line.
CursorOnCharacter ==
    /\ active_pane = "QueryEditor"
    /\ vim_state.mode = "Normal"
    /\ query_editor.cursor_col < LineLen(query_editor, query_editor.cursor_line)

\* C28: in Visual mode entered with the Editor focused, a directional key extends the
\* selection: the anchor stays where v was pressed and the moving end leaves it, so
\* that v, l, y on a non-empty line stores a non-empty text in the clipboard.
C28_VisualMotionExtendsSelection ==
    CursorOnCharacter =>
        LET extended == PressAll(App, <<KeyChar("v"), KeyChar("l")>>)
            yanked == PressAll(App, <<KeyChar("v"), KeyChar("l"), KeyChar("y")>>)
            anchor == <<query_editor.cursor_line, query_editor.cursor_col>>
        IN  /\ extended.vim_state.mode = "Visual"
            /\ extended.query_editor.visual_start = Some(anchor)
            /\ <<extended.query_editor.cursor_line, extended.query_editor.cursor_col>> /= anchor
            /\ IsSome(yanked.clipboard)
            /\ Unwrap(yanked.clipboard) /= <<>>

\* A result with at least one row and one column is loaded.
ResultLoaded ==
    /\ IsSome(results_viewer.result)
    /\ Len(Unwrap(results_viewer.result).rows) >= 1
    /\ Len(Unwrap(results_viewer.result).columns) >= 1

\* C30: in every reachable state where a result with at least one row and one column
\* is loaded, the selected row index is below the number of rows and the selected
\* column index is below the number of columns, also after a new result with fewer
\* rows or columns has replaced the old one.
C30_SelectionPointsIntoResult ==
    ResultLoaded =>
        /\ UnwrapOr(results_viewer.table_state, 0) < Len(Unwrap(results_viewer.result).rows)
        /\ results_viewer.selected_column < Len(Unwrap(results_viewer.result).columns)

\* ---------------------------------------------------------------- searching in the Browser

\* The keys of the runs that search the browser's list.
SearchRunKeys ==
    {KeyChar(c) : c \in {"/", "t", "j", "k", "i", "2"}}
    \cup {KeyNamed(n) : n \in {"Esc", "Enter", "Backspace", "Tab", "Down"}}

\* Outside search mode the letter t is not typed.
SearchNext ==
    \E key \in SearchRunKeys :
        \/ SearchKey(key)
        \/ BrowserEscapeKey(key)
        \/ \E env \in EnvsFor(key) : ~IsChar(key, "t") /\ VimKey(key, env)

SearchSpec == Init /\ [][SearchNext]_vars

\* Esc pressed n times
EscPresses(n) == [i \in 1..n |-> KeyNamed("Esc")]

\* C31: search mode, the search filter, the table list and the state machine take one
\* Esc each: from every reachable state with the connection manager hidden, pressing Esc
\* repeatedly (collaborator calls succeeding) reaches mode Normal within at most 4
\* presses, and once in Normal further Esc presses keep it Normal.
C31_EscLeadsToNormal ==
    ~connection_manager.visible =>
        /\ \E n \in 0..4 : PressAll(App, EscPresses(n)).vim_state.mode = "Normal"
        /\ vim_state.mode = "Normal" =>
               \A n \in 1..4 : PressAll(App, EscPresses(n)).vim_state.mode = "Normal"

\* The browser is searching its table list with a filter typed: no fewer than four Esc
\* presses reach Normal mode.
C31_FourPressesNeeded ==
    /\ ~connection_manager.visible
    /\ active_pane = "DatabaseBrowser"
    /\ database_browser.search_mode
    /\ Len(database_browser.search_query) > 0
    /\ database_browser.viewing_tables
    /\ \A n \in 0..3 : PressAll(App, EscPresses(n)).vim_state.mode /= "Normal"
    /\ PressAll(App, EscPresses(4)).vim_state.mode = "Normal"

\* Keys of every kind: letters, digits, punctuation, Control combinations, named keys
AnyKeys ==
    {KeyChar(c) : c \in {"t", "j", "k", "i", "v", ":", "/", "C", "e", "2", " "}}
    \cup {KeyCtrl(c) : c \in {"c", "e", "r", "s", "n", "d", "j"}}
    \cup {KeyNamed(n) : n \in {"Esc", "Enter", "Backspace", "Tab", "BackTab", "Up", "Down",
                               "Left", "Right", "F1"}}

\* C32: in every reachable state with search_mode true the active pane is the Browser
\* and the mode is Command, and no key changes the modal state; Esc or Enter clears
\* search_mode but leaves the mode Command with command line "/", so that Esc does not
\* yet give Normal mode.
C32_SearchModeTiedToCommandMode ==
    database_browser.search_mode =>
        /\ active_pane = "DatabaseBrowser"
        /\ vim_state.mode = "Command"
        /\ \A key \in AnyKeys : handle_key_event(App, key, EnvOk).app.vim_state = vim_state
        /\ \A key \in {KeyNamed("Esc"), KeyNamed("Enter")} :
               LET after == handle_key_event(App, key, EnvOk).app
               IN  /\ ~after.database_browser.search_mode
                   /\ after.vim_state.mode = "Command"
                   /\ after.vim_state.command_buffer = <<"/">>

\* A search with text typed is ended by Enter, and the command line still holds "/".
C32_SearchEndedByEnter ==
    /\ database_browser.search_mode
    /\ Len(database_browser.search_query) > 0
    /\ ~handle_key_event(App, KeyNamed("Enter"), EnvOk).app.database_browser.search_mode
    /\ handle_key_event(App, KeyNamed("Enter"), EnvOk).app.vim_state.command_buffer = <<"/">>

\* The tab the keys 1, 2, 3 stand for
TabOfKey(c) == CASE c = "1" -> "Data" [] c = "2" -> "Schema" [] c = "3" -> "Indexes"

\* Results is focused, no editing sub-mode is active and no overlay covers it.
ResultsViewing ==
    /\ active_pane = "Results"
    /\ ~connection_manager.visible
    /\ ~results_viewer.edit_mode /\ ~results_viewer.insert_mode
    /\ ~results_viewer.schema_edit_mode /\ ~results_viewer.schema_insert_mode

\* C33: with Results focused and no editing sub-mode active, the keys 1, 2 and 3 switch
\* the active tab to Data, Schema and Indexes and leave mode, pending count and buffer
\* unchanged; so 3 then j, with no count pending in Normal mode, switches to the
\* Indexes tab and moves down by one.
C33_TabKeysBypassStateMachine ==
    ResultsViewing =>
        /\ \A c \in {"1", "2", "3"} :
               LET after == handle_key_event(App, KeyChar(c), EnvOk).app
               IN  /\ after.results_viewer.active_tab = TabOfKey(c)
                   /\ after.vim_state = vim_state
        /\ vim_state.mode = "Normal" /\ IsNone(vim_state.count) =>
               LET after == PressAll(App, <<KeyChar("3"), KeyChar("j")>>)
               IN  /\ after.results_viewer
                         = results_move_down(switch_to_indexes_tab(results_viewer), 1)
                   /\ IsNone(after.vim_state.count)

\* On the Data tab of a result with several rows, first row selected, 3 then j ends on
\* the Indexes tab with the second row selected.
C33_ThreeThenJ ==
    /\ ResultsViewing
    /\ vim_state.mode = "Normal" /\ IsNone(vim_state.count)
    /\ results_viewer.active_tab = "Data"
    /\ IsSome(results_viewer.result) /\ Len(Unwrap(results_viewer.result).rows) > 1
    /\ results_viewer.table_state = Some(0)
    /\ PressAll(App, <<KeyChar("3"), KeyChar("j")>>).results_viewer.active_tab = "Indexes"
    /\ PressAll(App, <<KeyChar("3"), KeyChar("j")>>).results_viewer.table_state = Some(1)

\* One of the four editing sub-modes of the Results pane is on.
SubModeOn(r) == r.edit_mode \/ r.insert_mode \/ r.schema_edit_mode \/ r.schema_insert_mode

\* C34: in every reachable state a schema sub-mode implies the Schema tab, edit or
\* insert mode implies a tab other than Schema, and while any of the four flags is set
\* no key changes the active tab.
C34_TabFrozenWhileEditing ==
    LET r == results_viewer
    IN  /\ r.schema_edit_mode \/ r.schema_insert_mode => r.active_tab = "Schema"
        /\ r.edit_mode \/ r.insert_mode => r.active_tab /= "Schema"
        /\ SubModeOn(r) =>
               \A key \in AnyKeys \cup {KeyChar("1"), KeyChar("3")} :
                   \A env \in {EnvOk} \cup {[EnvOk EXCEPT !.fail = f] : f \in Failures} :
                       handle_key_event(App, key, env).app.results_viewer.active_tab
                           = r.active_tab

\* A column is being added on the Schema tab, and the key 1 does not leave the tab.
C34_TabKeyWhileAddingColumn ==
    /\ active_pane = "Results"
    /\ results_viewer.schema_insert_mode
    /\ results_viewer.active_tab = "Schema"
    /\ handle_key_event(App, KeyChar("1"), EnvOk).app.results_viewer.active_tab = "Schema"
    /\ handle_key_event(App, KeyChar("1"), EnvOk).app.results_viewer.schema_insert_mode

\* A schema sub-mode is on in r.
SchemaFlag(r) == r.schema_edit_mode \/ r.schema_insert_mode

\* The environments of one key event: every collaborator call succeeds, or one fails.
AnyEnvs == {EnvOk} \cup {[EnvOk EXCEPT !.fail = f] : f \in Failures}

\* C35: once e or Ctrl+n on the Schema tab has set a schema sub-mode flag and mode
\* Insert, one Esc clears the flag and the schema edit buffer but leaves the mode
\* Insert, a second Esc gives Normal, and while the flag is set no key other than
\* Ctrl+D changes the modal state.
C35_SchemaEscLeavesInsert ==
    SchemaFlag(results_viewer) =>
        LET once == PressAll(App, EscPresses(1))
            twice == PressAll(App, EscPresses(2))
        IN  /\ vim_state.mode = "Insert"
            /\ ~SchemaFlag(once.results_viewer)
            /\ once.results_viewer.schema_edit_buffer = <<>>
            /\ once.vim_state.mode = "Insert"
            /\ twice.vim_state.mode = "Normal"
            /\ \A key \in AnyKeys \ {KeyCtrl("d")} : \A env \in AnyEnvs :
                   handle_key_event(App, key, env).app.vim_state = vim_state

\* A schema cell is being edited with text in the buffer; Esc empties the buffer and
\* leaves Insert mode on.
C35_SchemaCellEditLeftByEsc ==
    /\ results_viewer.schema_edit_mode
    /\ Len(results_viewer.schema_edit_buffer) > 0
    /\ PressAll(App, EscPresses(1)).results_viewer.schema_edit_buffer = <<>>
    /\ ~PressAll(App, EscPresses(1)).results_viewer.schema_edit_mode
    /\ PressAll(App, EscPresses(1)).vim_state.mode = "Insert"

\* C36: pressing i or a in Normal mode leaves the mode Insert only if the Editor is
\* focused; with the Browser or the Results pane focused the mode after the key is
\* Normal.
C36_InsertOnlyInEditor ==
    vim_state.mode = "Normal" =>
        \A c \in {"i", "a"} :
            Branch(App, KeyChar(c)) = "Vim" =>
                handle_key_event(App, KeyChar(c), EnvOk).app.vim_state.mode
                    = IF active_pane = "QueryEditor" THEN "Insert" ELSE "Normal"

\* A cell or a new row of the Results pane is being typed into.
TypingIntoResults ==
    /\ ~connection_manager.visible
    /\ active_pane = "Results"
    /\ results_viewer.edit_mode \/ results_viewer.insert_mode
    /\ vim_state.mode = "Insert"

\* The application after the letter c has been appended to the edit buffer
WithLetter(c) == [App EXCEPT !.results_viewer.edit_buffer = Append(@, c)]

\* C37: in Insert mode a character key emits InsertChar(c) with or without Control, so
\* during Results cell edit or row insert in Insert mode Ctrl+S, and Ctrl+D when no
\* change is pending, append their letter to the edit buffer and save or discard
\* nothing; the state machine emits SaveAllEdits only in Normal mode.
C37_ControlLettersAreTyped ==
    /\ vim_state.mode = "Insert" =>
           \A c \in {"s", "d", "c", "n", "x"} :
               handle_key(vim_state, KeyCtrl(c)) = handle_key(vim_state, KeyChar(c))
    /\ TypingIntoResults =>
           \A env \in AnyEnvs :
               /\ handle_key_event(App, KeyCtrl("s"), env) = Ok(WithLetter("s"))
               /\ ~has_any_changes(results_viewer)
                      => handle_key_event(App, KeyCtrl("d"), env) = Ok(WithLetter("d"))
    /\ \A key \in AnyKeys :
           handle_key(vim_state, key).cmd = Some(Cmd("SaveAllEdits"))
               => vim_state.mode = "Normal"

\* A cell edit with a typed, unsaved text: Ctrl+S adds the letter s to it.
C37_CtrlSInCellEdit ==
    /\ TypingIntoResults
    /\ results_viewer.edit_mode
    /\ IsSome(results_viewer.result)
    /\ MapIsEmpty(results_viewer.modified_cells)
    /\ Len(results_viewer.edit_buffer) > 0
    /\ handle_key_event(App, KeyCtrl("s"), EnvOk).app.results_viewer.edit_buffer
           = Append(results_viewer.edit_buffer, "s")

\* ---------------------------------------------------------------- selecting in the Editor

\* The keys of the runs that select text in the Editor.
VisualKeys ==
    {KeyChar(c) : c \in {"v", "l", "h", "y", "d"}} \cup {KeyNamed("Esc")}

VisualNext == \E key \in VisualKeys : CountedKey(key)

VisualSpec == EditorInit /\ [][VisualNext]_vars

\* C38: the Editor's selection anchor is cleared whenever the mode leaves Visual, by
\* Esc, by y or by d: in every reachable state with a mode other than Visual the
\* anchor is absent.
C38_AnchorOnlyInVisualMode ==
    vim_state.mode /= "Visual" => IsNone(query_editor.visual_start)

\* The connection manager is shown with its list of saved connections.
ManagerList == connection_manager.visible /\ connection_manager.mode = <<"List">>

\* C39: with the connection manager visible in List mode, k and j move the list
\* selection exactly as Up and Down do (k decrements the selected index unless it is
\* 0, j increments it unless it is the last saved connection), and neither triggers a
\* connection-manager action.
C39_LettersMoveListSelection ==
    ManagerList =>
        /\ handle_key_event(App, KeyChar("k"), EnvOk) = handle_key_event(App, KeyNamed("Up"), EnvOk)
        /\ handle_key_event(App, KeyChar("j"), EnvOk)
               = handle_key_event(App, KeyNamed("Down"), EnvOk)

StrConnections == <<"c", "o", "n", "n", "e", "c", "t", "i", "o", "n", "s">>
StrConn == <<"c", "o", "n", "n">>

\* C40: Esc in Add or Edit form mode returns to List mode with the overlay still
\* visible and the test result cleared, Esc in List mode hides the overlay, so two
\* presses always close it; opening the overlay with the key C or the commands
\* connections / conn always starts in List mode.
C40_OverlayClosesInTwoEscs ==
    LET once == PressAll(App, EscPresses(1)).connection_manager
        twice == PressAll(App, EscPresses(2)).connection_manager
    IN  /\ connection_manager.visible /\ IsFormMode(connection_manager) =>
               /\ once.visible /\ once.mode = <<"List">> /\ once.test_result = None
               /\ ~twice.visible
        /\ ManagerList => ~once.visible
        /\ ~connection_manager.visible /\ vim_state.mode = "Normal"
                /\ Branch(App, KeyChar("C")) = "Vim" =>
               LET m == handle_key_event(App, KeyChar("C"), EnvOk).app.connection_manager
               IN  m.visible /\ m.mode = <<"List">>
        /\ \A cmd \in {StrConnections, StrConn} :
               LET m == execute_command(App, cmd, EnvOk).app.connection_manager
               IN  m.visible /\ m.mode = <<"List">>

\* The form for a new connection is open with a name typed, two Esc presses away from
\* the panes.
C40_FormOpenWithName ==
    /\ connection_manager.visible
    /\ connection_manager.mode = <<"Add">>
    /\ Len(connection_manager.form.name) > 0
    /\ PressAll(App, EscPresses(1)).connection_manager.visible
    /\ ~PressAll(App, EscPresses(2)).connection_manager.visible

====
